---- MODULE Spec2Model ----
(***************************************************************************)
(* Verification model of the gastown orchestration core:                   *)
(*   - the agent identity lock      (package lock)                          *)
(*   - the polecat name pool and the polecat manager (package polecat)      *)
(*   - the refinery merge engine    (package refinery, Engineer)            *)
(* Each component has its own specification (SpecLock, SpecPool,           *)
(* SpecManager, SpecMerge) over one shared state vector; a component's      *)
(* actions leave the other components' variables unchanged.                 *)
(***************************************************************************)
EXTENDS Integers, Sequences, FiniteSets, Bags, TLC

VARIABLES
    \* ---- identity lock: <worker>/.runtime/agent.lock and its callers ----
    lockFile,     \* content of the lock file
    alive,        \* PIDs of the live OS processes
    lpc,          \* per process: position inside Acquire
    rd,           \* per process: the LockInfo its Read returned
    sessArg,      \* per process: the sessionID argument of the running Acquire
    stamp,        \* per process: the time.Now() taken by write
    lres,         \* per process: outcome of its last Acquire
    lerr,         \* per process: the LockInfo carried by its last ErrLocked
    held,         \* per process: Acquire returned nil and no Release came since
    clock,        \* the host's wall clock
    \* ---- name pool (NamePool) and polecat manager (Manager) ----
    pool,         \* the NamePool struct: Theme, CustomNames, InUse, ...
    stateFile,    \* <rig>/.runtime/namepool-state.json
    polecats,     \* the worker directories under <rig>/polecats, counted by name
    asked,        \* the Remove call made last: its arguments, and what the worktree held
    tracker,      \* per issue of the rig's tracker: its status and assignee
    mres,         \* the worker-state call that returned last, and what it returned
    op,           \* the operation called last and the error it returned
    ret,          \* the name the last Allocate / AllocateName returned
    handed,       \* overflow names Allocate has returned so far
    sinceRewind,  \* overflow names returned since the last Reset or Load
    \* ---- refinery merge engine (Engineer), its queue and the tracker ----
    queue,        \* per MR id: the MR in the rig's merge queue, if any
    issues,       \* per MR id: the MR's issue in the tracker
    sources,      \* per MR id: the status of the MR's source issue
    tasks,        \* per task id: the conflict-resolution task in the tracker
    slotHolder,   \* holder of the rig's merge slot, "" when it is free
    slotFor,      \* the MR whose conflict made the engine take the slot
    ready,        \* what is left of the list ListReadyMRs returned last
    mop,          \* the merge-engine step taken last
    refs,         \* per MR id: its source branch exists locally, on origin
    deleteMergedBranches, \* MergeQueueConfig.DeleteMergedBranches
    emits,        \* what the last merge-engine step logged and sent
    \* ---- wisp store: <root>/.beads-wisp ----
    wispFiles,    \* the files of the wisp directory, by name
    wpc,          \* the running WriteSlungWork: position, agent and value
    slung,        \* per agent: the value of the last completed write, until burned
    wres,         \* the wisp call that returned last, and what it returned
    \* ---- mayor's callback inbox ----
    subject,      \* the subject line of the message at hand
    kind,          \* what classifyCallback returned for it, "" before the call
    \* ---- callbacks process: the mayor's inbox and what handling it touches ----
    inbox,        \* the unread messages of mayor/
    pending,      \* what is left of the list ListUnread returned to the running command
    dry,          \* the --dry-run flag of the running command
    sent,         \* the messages the router has delivered to overseer
    townLog,      \* the callback events in the town log
    beadsClosed,  \* the issues closed in the tracker by callbacks
    cres,          \* the CallbackResult of the message processed last
    \* ---- gt prime in one directory, and the directory's tracker redirect ----
    role,         \* the role detectRole finds for the directory
    ppc,          \* per process: where its runPrime stands
    redirect,     \* the content of <workdir>/.beads/redirect
    mayorRigBeads, \* <rig>/mayor/rig/.beads exists
    rigRootBeads, \* <rig>/.beads exists
    emitted,      \* per process: its runPrime has printed the role context
    pres,          \* per process: what its last runPrime returned
    \* ---- one run of doMerge for an MR, and what the engine tells the witness ----
    dpc,          \* the step doMerge is about to take; "idle" between runs
    steps,        \* the git and test steps the run has taken, in order
    runResult,    \* the ProcessResult (result) doMerge returned
    attempt,      \* the number of test attempts made by runTests
    canceled,     \* the enclosing context has been canceled
    runTestsCfg,  \* config.RunTests, with a TestCommand configured
    retryFlakyTests, \* config.RetryFlakyTests
    merged,       \* the run has made a merge commit on the target
    pushed,       \* the run has pushed the target to origin
    notified,     \* the failure type of the MERGE_FAILED message sent last
    failedStep,    \* the first step of the run that failed, "" when none has
    \* ---- the worktrees of the rig's workers and their branches ----
    work,         \* per worker name: what its worktree holds
    branches,     \* the names n whose branch polecat/<n> exists
    rcall,         \* the arguments of the Recreate called last
    \* ---- keepalive: <workspace>/.runtime/keepalive.json and its readers ----
    keepalive,    \* the State that Read returns, NilState for none
    wall,         \* the wall clock, in minutes
    verdict       \* the answers of IsFresh, IsStale and IsVeryStale asked last

lockVars == <<lockFile, alive, lpc, rd, sessArg, stamp, lres, lerr, held, clock>>
poolVars == <<pool, stateFile, op, ret, handed, sinceRewind>>
mgrVars == <<polecats, asked>>
stateVars == <<tracker, mres>>
mergeVars ==
    <<queue, issues, sources, tasks, slotHolder, slotFor, ready, mop,
      refs, deleteMergedBranches, emits>>

wispVars == <<wispFiles, wpc, slung, wres>>

callbackVars == <<subject, kind>>

inboxVars == <<inbox, pending, dry, sent, townLog, beadsClosed, cres>>

primeVars == <<role, ppc, redirect, mayorRigBeads, rigRootBeads, emitted, pres>>

runVars ==
    <<dpc, steps, runResult, attempt, canceled, runTestsCfg, retryFlakyTests,
      merged, pushed, notified, failedStep>>

recreateVars == <<work, branches, rcall>>

keepaliveVars == <<keepalive, wall, verdict>>

vars ==
    <<lockVars, poolVars, mgrVars, stateVars, mergeVars, wispVars, callbackVars,
      inboxVars,
      primeVars,
      runVars,
      recreateVars,
      keepaliveVars>>

OnlyLock ==
    UNCHANGED <<poolVars, mgrVars, stateVars, mergeVars, wispVars, callbackVars,
               inboxVars,
               primeVars,
               runVars,
               recreateVars,
               keepaliveVars>>
OnlyPool ==
    UNCHANGED <<lockVars, mgrVars, stateVars, mergeVars, wispVars, callbackVars,
               inboxVars,
               primeVars,
               runVars,
               recreateVars,
               keepaliveVars>>
OnlyManager ==
    UNCHANGED <<lockVars, stateVars, mergeVars, wispVars, callbackVars,
               inboxVars,
               primeVars,
               runVars,
               recreateVars,
               keepaliveVars>>
OnlyState ==
    UNCHANGED <<lockVars, poolVars, mgrVars, mergeVars, wispVars, callbackVars,
               inboxVars,
               primeVars,
               runVars,
               recreateVars,
               keepaliveVars>>
OnlyMerge ==
    UNCHANGED <<lockVars, poolVars, mgrVars, stateVars, wispVars, callbackVars,
               inboxVars,
               primeVars,
               runVars,
               recreateVars,
               keepaliveVars>>
OnlyCallback ==
    UNCHANGED <<lockVars, poolVars, mgrVars, stateVars, mergeVars, wispVars,
               inboxVars,
               primeVars,
               runVars,
               recreateVars,
               keepaliveVars>>
OnlyInbox ==
    UNCHANGED <<lockVars, poolVars, mgrVars, stateVars,
               mergeVars, wispVars, callbackVars,
               primeVars,
               runVars,
               recreateVars,
               keepaliveVars>>
OnlyLockAndPrime ==
    UNCHANGED <<poolVars, mgrVars, stateVars, mergeVars, wispVars,
               callbackVars, inboxVars, runVars,
               recreateVars,
               keepaliveVars>>
OnlyPrime ==
    UNCHANGED <<lockVars, poolVars, mgrVars, stateVars,
               mergeVars, wispVars, callbackVars, inboxVars,
               runVars,
               recreateVars,
               keepaliveVars>>
OnlyRun ==
    UNCHANGED <<lockVars, poolVars, mgrVars, stateVars,
               mergeVars, wispVars, callbackVars, inboxVars, primeVars,
               recreateVars,
               keepaliveVars>>
OnlyWorktrees ==
    UNCHANGED <<lockVars, stateVars, mergeVars, wispVars, callbackVars,
               inboxVars, primeVars, runVars,
               keepaliveVars>>
OnlyKeepalive ==
    UNCHANGED <<lockVars, poolVars, mgrVars, stateVars,
               mergeVars, wispVars, callbackVars, inboxVars, primeVars, runVars,
               recreateVars>>
OnlyWisp ==
    UNCHANGED <<lockVars, poolVars, mgrVars, stateVars, mergeVars, callbackVars,
               inboxVars,
               primeVars,
               runVars,
               recreateVars,
               keepaliveVars>>

-----------------------------------------------------------------------------
(* Identity lock                                                           *)
-----------------------------------------------------------------------------

\* Number of processes that contend for one worker directory.
NumProcs == 2
\* Last value of the wall clock: bounds the number of lock writes.
MaxClock == 3

Procs == 1..NumProcs
\* PID of a process that exited before the model starts.
DeadPid == NumProcs + 1
Sessions == {"gt-a", "gt-b"}

NoFile == [kind |-> "absent", pid |-> 0, at |-> 0, session |-> ""]
\* os.WriteFile opens with O_TRUNC before it writes: an empty file, not JSON.
Truncated == [kind |-> "invalid", pid |-> 0, at |-> 0, session |-> ""]
LockInfo(pid, at, session) ==
    [kind |-> "info", pid |-> pid, at |-> at, session |-> session]

\* Read: ErrNotLocked for a missing file, ErrInvalidLock for unparsable data.
Read(file) ==
    IF file.kind = "absent" THEN [err |-> "ErrNotLocked", info |-> NoFile]
    ELSE IF file.kind = "invalid" THEN [err |-> "ErrInvalidLock", info |-> NoFile]
    ELSE [err |-> "nil", info |-> file]

\* Mutant of processExists: any positive PID counts as alive.
processExistsAnyPid(pid, live) == pid > 0

\* processExists: signal 0 to the PID.
processExists(pid, live) == pid > 0 /\ pid \in live

IsStale(info, live) == ~processExists(info.pid, live)

\* The lock file is missing, or left behind by a process that has exited.
InitLock(files) ==
    /\ lockFile \in files
    /\ alive = Procs
    /\ lpc = [p \in Procs |-> "idle"]
    /\ rd = [p \in Procs |-> NoFile]
    /\ sessArg = [p \in Procs |-> ""]
    /\ stamp = [p \in Procs |-> 0]
    /\ lres = [p \in Procs |-> "none"]
    /\ lerr = [p \in Procs |-> NoFile]
    /\ held = [p \in Procs |-> FALSE]
    /\ clock = 1

\* Acquire, first step: info, err := l.Read().  Any Read error (missing or
\* unparsable file) skips the `err == nil` branch and goes on to l.write.
AcquireReadStep(p, s) ==
    /\ p \in alive /\ lpc[p] = "idle"
    /\ clock < MaxClock
    /\ sessArg' = [sessArg EXCEPT ![p] = s]
    /\ rd' = [rd EXCEPT ![p] = Read(lockFile).info]
    /\ lpc' = [lpc EXCEPT ![p] =
                  IF Read(lockFile).err = "nil" THEN "probe" ELSE "write"]
    /\ lres' = [lres EXCEPT ![p] = "none"]
    /\ lerr' = [lerr EXCEPT ![p] = NoFile]
    /\ UNCHANGED <<lockFile, alive, stamp, held, clock>>

\* Acquire called on its own.
AcquireRead(p, s) == AcquireReadStep(p, s) /\ OnlyLock

\* Mutant of AcquireProbe: a lock that is not stale is taken for the
\* caller's own and refreshed.
AcquireProbeWithoutOwnerCheck(p) ==
    /\ p \in alive /\ lpc[p] = "probe"
    /\ lpc' = [lpc EXCEPT ![p] = IF IsStale(rd[p], alive) THEN "remove" ELSE "write"]
    /\ UNCHANGED <<lockFile, alive, rd, sessArg, stamp, held, clock, lres, lerr>>
    /\ OnlyLock

\* Acquire, second step: info.IsStale(), then info.PID == os.Getpid().
AcquireProbe(p) ==
    /\ p \in alive /\ lpc[p] = "probe"
    /\ IF IsStale(rd[p], alive)
       THEN /\ lpc' = [lpc EXCEPT ![p] = "remove"]
            /\ UNCHANGED <<lres, lerr>>
       ELSE IF rd[p].pid = p
       THEN /\ lpc' = [lpc EXCEPT ![p] = "write"]
            /\ UNCHANGED <<lres, lerr>>
       ELSE /\ lpc' = [lpc EXCEPT ![p] = "idle"]
            /\ lres' = [lres EXCEPT ![p] = "ErrLocked"]
            /\ lerr' = [lerr EXCEPT ![p] = rd[p]]
    /\ UNCHANGED <<lockFile, alive, rd, sessArg, stamp, held, clock>>
    /\ OnlyLock

\* Acquire, stale branch: l.Release() removes whatever file is there now.
AcquireRemoveStale(p) ==
    /\ p \in alive /\ lpc[p] = "remove"
    /\ lockFile' = NoFile
    /\ lpc' = [lpc EXCEPT ![p] = "write"]
    /\ UNCHANGED <<alive, rd, sessArg, stamp, lres, lerr, held, clock>>
    /\ OnlyLock

\* write, first half: time.Now(), then os.WriteFile opens and truncates.
writeOpen(p) ==
    /\ p \in alive /\ lpc[p] = "write"
    /\ stamp' = [stamp EXCEPT ![p] = clock]
    /\ clock' = clock + 1
    /\ lockFile' = Truncated
    /\ lpc' = [lpc EXCEPT ![p] = "data"]
    /\ UNCHANGED <<alive, rd, sessArg, lres, lerr, held>>
    /\ OnlyLock

\* write, second half: the JSON reaches the file and Acquire returns nil.
writeData(p) ==
    /\ p \in alive /\ lpc[p] = "data"
    /\ lockFile' = LockInfo(p, stamp[p], sessArg[p])
    /\ lpc' = [lpc EXCEPT ![p] = "idle"]
    /\ lres' = [lres EXCEPT ![p] = "ok"]
    /\ held' = [held EXCEPT ![p] = TRUE]
    /\ UNCHANGED <<alive, rd, sessArg, stamp, lerr, clock>>
    /\ OnlyLock

\* Release: os.Remove(lockPath), whoever the caller is.
Release(p) ==
    /\ p \in alive /\ lpc[p] = "idle"
    /\ lockFile' = NoFile
    /\ held' = [q \in Procs |-> FALSE]
    /\ UNCHANGED <<alive, lpc, rd, sessArg, stamp, lres, lerr, clock>>
    /\ OnlyLock

\* ForceRelease: return l.Release(); the same step as Release.
ForceRelease(p) == Release(p)

\* The process exits, at any point of its run; its lock file stays behind.
Die(p) ==
    /\ p \in alive
    /\ alive' = alive \ {p}
    /\ lpc' = [lpc EXCEPT ![p] = "dead"]
    /\ held' = [held EXCEPT ![p] = FALSE]
    /\ UNCHANGED <<lockFile, rd, sessArg, stamp, lres, lerr, clock>>
    /\ OnlyLock

NextLock ==
    \/ \E p \in Procs, s \in Sessions : AcquireRead(p, s)
    \/ \E p \in Procs : AcquireProbe(p)
    \/ \E p \in Procs : AcquireRemoveStale(p)
    \/ \E p \in Procs : writeOpen(p)
    \/ \E p \in Procs : writeData(p)
    \/ \E p \in Procs : Release(p)
    \/ \E p \in Procs : Die(p)

-----------------------------------------------------------------------------
(* Name pool                                                               *)
-----------------------------------------------------------------------------

\* MaxSize the pools are constructed with (NewNamePoolWithConfig's maxSize).
PoolSize == 2
\* Largest overflow sequence number Allocate hands out in the model.
MaxOverflow == 4

RigName == "gastown"
DefaultTheme == "mad-max"

\* BuiltinThemes, two of the three themes, each cut to three of its names in
\* their declared order; "chrome" is in both, as in the source.
BuiltinThemes ==
    [t \in {"mad-max", "wasteland"} |->
        IF t = "mad-max" THEN <<"furiosa", "nux", "chrome">>
                         ELSE <<"rust", "chrome", "nitro">>]

\* A custom_names list of a rig's settings/config.json.
ConfiguredNames == <<"ace", "nux">>

SeqRange(q) == {q[i] : i \in 1..Len(q)}

NewNamePoolWithConfig(theme, customNames, maxSize) ==
    [RigName |-> RigName,
     Theme |-> IF theme = "" THEN DefaultTheme ELSE theme,
     CustomNames |-> customNames,
     InUse |-> {},
     OverflowNext |-> maxSize + 1,
     MaxSize |-> maxSize]

getNames(p) ==
    IF Len(p.CustomNames) > 0 THEN p.CustomNames
    ELSE IF p.Theme \in DOMAIN BuiltinThemes THEN BuiltinThemes[p.Theme]
    ELSE BuiltinThemes[DefaultTheme]

isThemedName(p, name) == \E i \in 1..Len(getNames(p)) : getNames(p)[i] = name

\* fmt.Sprintf("%s-%d", p.RigName, seq)
formatOverflowName(p, seq) == p.RigName \o "-" \o ToString(seq)

\* Mutant of firstAvailable: prefers the last free name of the list.
firstAvailableFromEnd(p) ==
    LET names == getNames(p)
        lim == IF Len(names) < p.MaxSize THEN Len(names) ELSE p.MaxSize
        free == {i \in 1..lim : names[i] \notin p.InUse}
    IN  IF free = {} THEN 0 ELSE CHOOSE i \in free : \A j \in free : i >= j

\* The loop of Allocate: the first i < len(names), i < MaxSize with names[i]
\* not in use; 0 when the loop runs out.
firstAvailable(p) ==
    LET names == getNames(p)
        lim == IF Len(names) < p.MaxSize THEN Len(names) ELSE p.MaxSize
        free == {i \in 1..lim : names[i] \notin p.InUse}
    IN  IF free = {} THEN 0 ELSE CHOOSE i \in free : \A j \in free : i <= j

\* Mutant of Allocate: the overflow counter is not advanced.
AllocateKeepsCounter(p) ==
    IF firstAvailable(p) > 0
    THEN [pool |-> [p EXCEPT !.InUse = @ \cup {getNames(p)[firstAvailable(p)]}],
          name |-> getNames(p)[firstAvailable(p)]]
    ELSE [pool |-> p, name |-> formatOverflowName(p, p.OverflowNext)]

Allocate(p) ==
    IF firstAvailable(p) > 0
    THEN [pool |-> [p EXCEPT !.InUse = @ \cup {getNames(p)[firstAvailable(p)]}],
          name |-> getNames(p)[firstAvailable(p)]]
    ELSE [pool |-> [p EXCEPT !.OverflowNext = @ + 1],
          name |-> formatOverflowName(p, p.OverflowNext)]

\* Mutant of Release: releasing the newest overflow name takes its number back.
PoolReleaseReclaims(p, name) ==
    IF isThemedName(p, name) THEN [p EXCEPT !.InUse = @ \ {name}]
    ELSE IF /\ p.OverflowNext > p.MaxSize + 1
            /\ name = formatOverflowName(p, p.OverflowNext - 1)
         THEN [p EXCEPT !.OverflowNext = @ - 1]
         ELSE p

PoolRelease(p, name) ==
    IF isThemedName(p, name) THEN [p EXCEPT !.InUse = @ \ {name}] ELSE p

MarkInUse(p, name) ==
    IF isThemedName(p, name) THEN [p EXCEPT !.InUse = @ \cup {name}] ELSE p

\* Mutant of Reconcile: the names in use before stay in use.
ReconcileKeeping(p, existingPolecats) ==
    [p EXCEPT !.InUse = @ \cup {n \in existingPolecats : isThemedName(p, n)}]

Reconcile(p, existingPolecats) ==
    [p EXCEPT !.InUse = {n \in existingPolecats : isThemedName(p, n)}]

\* Mutant of SetTheme: no name of the old theme is kept.
SetThemeResetting(p, theme) ==
    IF theme \notin DOMAIN BuiltinThemes THEN p
    ELSE [p EXCEPT !.Theme = theme, !.InUse = {}, !.CustomNames = <<>>]

\* SetTheme: an unknown theme is an error and changes nothing.
SetTheme(p, theme) ==
    IF theme \notin DOMAIN BuiltinThemes THEN p
    ELSE [p EXCEPT !.Theme = theme,
                   !.InUse = {n \in @ : n \in SeqRange(BuiltinThemes[theme])},
                   !.CustomNames = <<>>]

PoolReset(p) == [p EXCEPT !.InUse = {}, !.OverflowNext = p.MaxSize + 1]

MissingFile ==
    [present |-> FALSE, rig_name |-> "", theme |-> "", custom_names |-> <<>>,
     in_use |-> {}, overflow_next |-> 0, max_size |-> 0]

\* json.MarshalIndent(p): custom_names is omitted when empty.
Save(p) ==
    [present |-> TRUE, rig_name |-> p.RigName, theme |-> p.Theme,
     custom_names |-> p.CustomNames, in_use |-> p.InUse,
     overflow_next |-> p.OverflowNext, max_size |-> p.MaxSize]

\* Load: a missing file empties the pool; otherwise the fields are taken over,
\* OverflowNext clamped against the MaxSize the pool had before the load.
Load(p, file) ==
    IF ~file.present
    THEN [p EXCEPT !.InUse = {}, !.OverflowNext = p.MaxSize + 1]
    ELSE [p EXCEPT
            !.Theme = IF file.theme # "" THEN file.theme ELSE @,
            !.CustomNames = IF Len(file.custom_names) > 0
                            THEN file.custom_names ELSE @,
            !.InUse = file.in_use,
            !.OverflowNext = IF file.overflow_next < p.MaxSize + 1
                             THEN p.MaxSize + 1 ELSE file.overflow_next,
            !.MaxSize = IF file.max_size > 0 THEN file.max_size ELSE @]

\* The names <rig>-<N> the model can form.
OverflowNames == {formatOverflowName(pool, n) : n \in 1..(MaxOverflow + 1)}

\* Names passed to Release and MarkInUse: themed names of both themes, a
\* custom name, the first overflow name, and a name no pool knows.
ArgNames ==
    {"furiosa", "nux", "chrome", "rust", "ace",
     formatOverflowName(pool, PoolSize + 1), "stray"}

\* Directory listings passed to Reconcile.
ReconcileLists ==
    {{}, {"nux"}, {"furiosa", "chrome"}, {"furiosa", "nux"}, {"rust", "stray"},
     {"nux", formatOverflowName(pool, PoolSize + 1)}}

\* NewManager: the pool is built from the rig settings (with or without a
\* custom_names list) and loaded; no state file exists yet.
InitPool(customLists) ==
    /\ \E custom \in customLists :
          pool = Load(NewNamePoolWithConfig(DefaultTheme, custom, PoolSize),
                      MissingFile)
    /\ stateFile = MissingFile
    /\ op = [name |-> "new", err |-> "nil"]
    /\ ret = ""
    /\ handed = {}
    /\ sinceRewind = {}

Called(name) == op' = [name |-> name, err |-> "nil"]

DoAllocate ==
    /\ IF firstAvailable(pool) > 0 THEN TRUE
       ELSE pool.OverflowNext <= MaxOverflow
    /\ pool' = Allocate(pool).pool
    /\ ret' = Allocate(pool).name
    /\ Called("Allocate")
    /\ handed' = handed \cup ({ret'} \cap OverflowNames)
    /\ sinceRewind' = sinceRewind \cup ({ret'} \cap OverflowNames)
    /\ UNCHANGED stateFile
    /\ OnlyPool

DoRelease(name) ==
    /\ pool' = PoolRelease(pool, name)
    /\ Called("Release")
    /\ UNCHANGED <<stateFile, ret, handed, sinceRewind>>
    /\ OnlyPool

DoMarkInUse(name) ==
    /\ pool' = MarkInUse(pool, name)
    /\ Called("MarkInUse")
    /\ UNCHANGED <<stateFile, ret, handed, sinceRewind>>
    /\ OnlyPool

DoReconcile(existing) ==
    /\ pool' = Reconcile(pool, existing)
    /\ Called("Reconcile")
    /\ UNCHANGED <<stateFile, ret, handed, sinceRewind>>
    /\ OnlyPool

DoSetTheme(theme) ==
    /\ pool' = SetTheme(pool, theme)
    /\ op' = [name |-> "SetTheme",
              err |-> IF theme \in DOMAIN BuiltinThemes THEN "nil"
                      ELSE "unknown theme"]
    /\ UNCHANGED <<stateFile, ret, handed, sinceRewind>>
    /\ OnlyPool

DoReset ==
    /\ pool' = PoolReset(pool)
    /\ Called("Reset")
    /\ sinceRewind' = {}
    /\ UNCHANGED <<stateFile, ret, handed>>
    /\ OnlyPool

DoSave ==
    /\ stateFile' = Save(pool)
    /\ Called("Save")
    /\ UNCHANGED <<pool, ret, handed, sinceRewind>>
    /\ OnlyPool

DoLoad ==
    /\ pool' = Load(pool, stateFile)
    /\ Called("Load")
    /\ sinceRewind' = {}
    /\ UNCHANGED <<stateFile, ret, handed>>
    /\ OnlyPool

\* A restart of the manager: the pool is saved, and NewManager builds a fresh
\* pool from the rig settings of the day and loads the saved state into it.
Reload(theme, customNames, maxSize) ==
    /\ stateFile' = Save(pool)
    /\ pool' = Load(NewNamePoolWithConfig(theme, customNames, maxSize),
                    Save(pool))
    /\ Called("Reload")
    /\ sinceRewind' = {}
    /\ UNCHANGED <<ret, handed>>
    /\ OnlyPool

\* AddCustomName: a name not yet among the custom names is appended to them.
AddCustomName(p, name) ==
    IF \E i \in 1..Len(p.CustomNames) : p.CustomNames[i] = name THEN p
    ELSE [p EXCEPT !.CustomNames = Append(@, name)]

DoAddCustomName(name) ==
    /\ pool' = AddCustomName(pool, name)
    /\ Called("AddCustomName")
    /\ UNCHANGED <<stateFile, ret, handed, sinceRewind>>
    /\ OnlyPool

\* Allocate while the pool has a name of its list left to hand out.
AllocateListed == firstAvailable(pool) > 0 /\ DoAllocate

\* The pool operations that change in_use or the name list, and Release.
NextNames ==
    \/ AllocateListed
    \/ \E n \in {"furiosa", "nux"} : DoRelease(n)
    \/ \E n \in {"furiosa", "nux"} : DoMarkInUse(n)
    \/ \E l \in {{}, {"furiosa", "nux"}} : DoReconcile(l)
    \/ \E t \in {"mad-max", "wasteland"} : DoSetTheme(t)
    \/ \E n \in {"ace", "nux"} : DoAddCustomName(n)
    \/ DoSave
    \/ DoLoad

NextPool ==
    \/ DoAllocate
    \/ \E n \in ArgNames : DoRelease(n)
    \/ \E n \in ArgNames : DoMarkInUse(n)
    \/ \E l \in ReconcileLists : DoReconcile(l)
    \/ \E t \in {"mad-max", "wasteland", "no-such-theme"} : DoSetTheme(t)
    \/ DoReset
    \/ DoSave
    \/ DoLoad

\* Names handed out and given back, themes changed, and restarts under
\* settings that may have changed.
NextReload ==
    \/ DoAllocate
    \/ \E n \in ArgNames : DoRelease(n)
    \/ \E t \in {"mad-max", "wasteland", "no-such-theme"} : DoSetTheme(t)
    \/ \E t \in {"", "wasteland"}, c \in {<<>>, ConfiguredNames},
          m \in {PoolSize, PoolSize + 1} : Reload(t, c, m)

-----------------------------------------------------------------------------
(* Polecat manager                                                         *)
-----------------------------------------------------------------------------

\* Largest number of worker directories the model creates.
MaxWorkers == 3

\* Names given to Add and Remove: the pool's themed names, the first overflow
\* name, and a name chosen by hand.
WorkerNames ==
    {BuiltinThemes[DefaultTheme][i] : i \in 1..PoolSize}
        \cup {formatOverflowName(pool, PoolSize + 1), "stray"}

\* What a worktree holds (uncommitted changes, stashes, unpushed commits), and
\* err: CheckUncommittedWork fails on it instead of reporting that.
WorkStatuses ==
    {[err |-> FALSE, changes |-> FALSE, stashes |-> FALSE, unpushed |-> FALSE],
     [err |-> FALSE, changes |-> TRUE, stashes |-> FALSE, unpushed |-> FALSE],
     [err |-> FALSE, changes |-> FALSE, stashes |-> TRUE, unpushed |-> FALSE],
     [err |-> FALSE, changes |-> FALSE, stashes |-> FALSE, unpushed |-> TRUE],
     [err |-> TRUE, changes |-> FALSE, stashes |-> FALSE, unpushed |-> FALSE],
     [err |-> TRUE, changes |-> FALSE, stashes |-> TRUE, unpushed |-> FALSE]}

Clean(status) == ~status.changes /\ ~status.stashes /\ ~status.unpushed

\* os.Stat(m.polecatDir(name)) succeeds.
exists(name) == BagIn(name, polecats)

\* ReconcilePool: the pool is reconciled with the directory listing, unless
\* the listing fails.
ReconcilePool(p, listOk) ==
    IF listOk THEN Reconcile(p, BagToSet(polecats)) ELSE p

\* AllocateName: ReconcilePool (which saves the reconciled pool), Allocate,
\* Save; a failing Save is the error AllocateName returns.
AllocateName(listOk, saveOk) ==
    LET reconciled == ReconcilePool(pool, listOk)
        a == Allocate(reconciled)
    IN  /\ IF firstAvailable(reconciled) > 0 THEN TRUE
           ELSE reconciled.OverflowNext <= MaxOverflow
        /\ pool' = a.pool
        /\ stateFile' = IF saveOk THEN Save(a.pool)
                        ELSE IF listOk THEN Save(reconciled)
                        ELSE stateFile
        /\ ret' = IF saveOk THEN a.name ELSE ""
        /\ op' = [name |-> "AllocateName",
                  err |-> IF saveOk THEN "nil" ELSE "saving pool state"]
        /\ UNCHANGED <<polecats, asked, handed, sinceRewind>>
        /\ OnlyManager

\* Mutant of Add: the directory is created without the exists check.
AddWithoutExistsCheck(name, gitOk) ==
    /\ BagCardinality(polecats) < MaxWorkers
    /\ IF ~gitOk
       THEN /\ op' = [name |-> "Add", err |-> "git"]
            /\ UNCHANGED polecats
       ELSE /\ op' = [name |-> "Add", err |-> "nil"]
            /\ polecats' = polecats (+) SetToBag({name})
    /\ UNCHANGED <<asked, pool, stateFile, ret, handed, sinceRewind>>
    /\ OnlyManager

\* Add: ErrPolecatExists for an existing directory; a missing mayor clone or
\* a failing git worktree command is an error that creates nothing.
AddStep(name, gitOk) ==
    /\ BagCardinality(polecats) < MaxWorkers
    /\ IF exists(name)
       THEN /\ op' = [name |-> "Add", err |-> "ErrPolecatExists"]
            /\ UNCHANGED polecats
       ELSE IF ~gitOk
       THEN /\ op' = [name |-> "Add", err |-> "git"]
            /\ UNCHANGED polecats
       ELSE /\ op' = [name |-> "Add", err |-> "nil"]
            /\ polecats' = polecats (+) SetToBag({name})
    /\ UNCHANGED <<asked, pool, stateFile, ret, handed, sinceRewind>>

Add(name, gitOk) == AddStep(name, gitOk) /\ OnlyManager

\* The uncommitted-work gate of RemoveWithOptions.
RemoveRefused(force, nuclear, status) ==
    /\ ~nuclear
    /\ ~status.err /\ ~Clean(status)
    /\ IF force THEN status.stashes \/ status.unpushed ELSE TRUE

\* Mutant of RemoveWithOptions: the name is not released.
RemoveWithoutRelease(name, force, nuclear, status, rmOk, saveOk) ==
    /\ IF ~exists(name)
       THEN /\ op' = [name |-> "Remove", err |-> "ErrPolecatNotFound"]
            /\ UNCHANGED <<polecats, pool, stateFile>>
       ELSE IF RemoveRefused(force, nuclear, status)
       THEN /\ op' = [name |-> "Remove", err |-> "UncommittedWorkError"]
            /\ UNCHANGED <<polecats, pool, stateFile>>
       ELSE IF ~rmOk
       THEN /\ op' = [name |-> "Remove", err |-> "removing polecat dir"]
            /\ UNCHANGED <<polecats, pool, stateFile>>
       ELSE /\ op' = [name |-> "Remove", err |-> "nil"]
            /\ polecats' = [n \in DOMAIN polecats \ {name} |-> polecats[n]]
            /\ pool' = pool
            /\ stateFile' = IF saveOk THEN Save(pool) ELSE stateFile
    /\ UNCHANGED <<ret, handed, sinceRewind>>
    /\ OnlyManager

\* RemoveWithOptions: the gate, then the worktree is removed (falling back to
\* os.RemoveAll), the name released and the pool saved; the error of a failing
\* Save is dropped.
RemoveWithOptions(name, force, nuclear, status, rmOk, saveOk) ==
    /\ IF ~exists(name)
       THEN /\ op' = [name |-> "Remove", err |-> "ErrPolecatNotFound"]
            /\ UNCHANGED <<polecats, pool, stateFile>>
       ELSE IF RemoveRefused(force, nuclear, status)
       THEN /\ op' = [name |-> "Remove", err |-> "UncommittedWorkError"]
            /\ UNCHANGED <<polecats, pool, stateFile>>
       ELSE IF ~rmOk
       THEN /\ op' = [name |-> "Remove", err |-> "removing polecat dir"]
            /\ UNCHANGED <<polecats, pool, stateFile>>
       ELSE /\ op' = [name |-> "Remove", err |-> "nil"]
            /\ polecats' = [n \in DOMAIN polecats \ {name} |-> polecats[n]]
            /\ pool' = PoolRelease(pool, name)
            /\ stateFile' = IF saveOk THEN Save(PoolRelease(pool, name))
                            ELSE stateFile
    /\ UNCHANGED <<ret, handed, sinceRewind>>
    /\ OnlyManager

\* The values of an input a run reads; one value when the run ends before it
\* reads the input.
RelevantTo(read, values) == IF read THEN values ELSE {CHOOSE v \in values : TRUE}

NoRemove == [name |-> "", force |-> FALSE, nuclear |-> FALSE,
             status |-> CHOOSE st \in WorkStatuses : Clean(st) /\ ~st.err]

\* Remove / RemoveWithOptions called with every argument, on a worktree in
\* every condition.
Remove ==
    \E n \in WorkerNames :
       \E f, nu \in BOOLEAN, st \in RelevantTo(exists(n), WorkStatuses) :
          \E rm \in RelevantTo(exists(n) /\ ~RemoveRefused(f, nu, st), BOOLEAN) :
             \E sv \in RelevantTo(exists(n) /\ ~RemoveRefused(f, nu, st) /\ rm,
                                  BOOLEAN) :
                /\ RemoveWithOptions(n, f, nu, st, rm, sv)
                /\ UNCHANGED asked

\* The same calls with the arguments kept for the claims about the gate, the
\* removal of the directory and the Save succeeding.
RemoveAsked ==
    \E n \in WorkerNames :
       \E f, nu \in BOOLEAN, st \in RelevantTo(exists(n), WorkStatuses) :
          /\ RemoveWithOptions(n, f, nu, st, TRUE, TRUE)
          /\ asked' = [name |-> n, force |-> f, nuclear |-> nu, status |-> st]

NextManager ==
    \/ \E l, sv \in BOOLEAN : AllocateName(l, sv)
    \/ \E n \in WorkerNames, g \in BOOLEAN : Add(n, g)
    \/ Remove

\* Workers added and removed, the Remove arguments on record.
NextGate ==
    \/ AllocateName(TRUE, TRUE)
    \/ \E n \in WorkerNames : Add(n, TRUE)
    \/ RemoveAsked

InitManager ==
    /\ polecats = EmptyBag
    /\ asked = NoRemove

\* A worktree as git worktree add leaves it: no uncommitted changes; the
\* commits of a branch that was reused are still unpushed, and the stash list
\* is the repository's.
Fresh(status, branchKept) ==
    [err |-> FALSE, changes |-> FALSE, stashes |-> status.stashes,
     unpushed |-> branchKept /\ status.unpushed]

NoRecreate == [name |-> "", force |-> FALSE]

\* Add, with the worktree and the branch it creates: a branch polecat/<name>
\* that already exists is reused.
AddWorktree(name, gitOk) ==
    /\ AddStep(name, gitOk)
    /\ IF ~exists(name) /\ gitOk
       THEN /\ work' = [work EXCEPT ![name] = Fresh(@, name \in branches)]
            /\ branches' = branches \cup {name}
       ELSE UNCHANGED <<work, branches>>
    /\ UNCHANGED rcall
    /\ OnlyWorktrees

\* The worker of an existing worktree edits, stashes or commits.
DoWork(name, status) ==
    /\ exists(name)
    /\ ~status.err
    /\ work[name] # status
    /\ work' = [work EXCEPT ![name] = status]
    /\ op' = [name |-> "DoWork", err |-> "nil"]
    /\ UNCHANGED <<branches, rcall, mgrVars>>
    /\ UNCHANGED <<pool, stateFile, ret, handed, sinceRewind>>
    /\ OnlyWorktrees

\* Remove of a worktree in the condition its worker left it in; statusOk:
\* CheckUncommittedWork could report it.
RemoveWorktree(name, force, nuclear, statusOk, rmOk, saveOk) ==
    /\ RemoveWithOptions(name, force, nuclear,
                         [work[name] EXCEPT !.err = ~statusOk], rmOk, saveOk)
    /\ UNCHANGED asked

\* The uncommitted-work gate of Recreate.
RecreateRefused(force, status) ==
    /\ ~force
    /\ ~status.err /\ ~Clean(status)

\* Mutant of Recreate: removing the worktree releases the name, as Remove does.
RecreateReleasing(name, force, statusOk, out, deleteOk) ==
    LET status == [work[name] EXCEPT !.err = ~statusOk]
        removed == [n \in DOMAIN polecats \ {name} |-> polecats[n]]
        kept == IF deleteOk THEN branches \ {name} ELSE branches
    IN  /\ rcall' = [name |-> name, force |-> force]
        /\ IF ~exists(name)
           THEN /\ op' = [name |-> "Recreate", err |-> "ErrPolecatNotFound"]
                /\ UNCHANGED <<polecats, work, branches>>
           ELSE IF RecreateRefused(force, status)
           THEN /\ op' = [name |-> "Recreate", err |-> "UncommittedWorkError"]
                /\ UNCHANGED <<polecats, work, branches>>
           ELSE IF out = "rm"
           THEN /\ op' = [name |-> "Recreate", err |-> "removing polecat dir"]
                /\ UNCHANGED <<polecats, work, branches>>
           ELSE IF out = "branchCheck"
           THEN /\ op' = [name |-> "Recreate",
                          err |-> "checking branch existence"]
                /\ polecats' = removed
                /\ branches' = kept
                /\ UNCHANGED work
           ELSE IF out = "add"
           THEN /\ op' = [name |-> "Recreate", err |-> "creating worktree"]
                /\ polecats' = removed
                /\ branches' = kept
                /\ UNCHANGED work
           ELSE /\ op' = [name |-> "Recreate", err |-> "nil"]
                /\ polecats' = removed (+) SetToBag({name})
                /\ branches' = kept \cup {name}
                /\ work' = [work EXCEPT ![name] = Fresh(@, name \in kept)]
        /\ pool' = IF polecats' = polecats /\ op'.err # "nil" THEN pool
                   ELSE PoolRelease(pool, name)
        /\ UNCHANGED <<asked, stateFile, ret, handed, sinceRewind>>
        /\ OnlyWorktrees

\* Recreate: ErrPolecatNotFound, the gate, then the worktree is removed
\* (falling back to os.RemoveAll), the branch deleted if git will, and the
\* worktree added again, on the branch if it is still there. out names the
\* call that failed: "rm" both removals, "branchCheck" BranchExists, "add" the
\* git worktree add. The name pool is not touched.
Recreate(name, force, statusOk, out, deleteOk) ==
    LET status == [work[name] EXCEPT !.err = ~statusOk]
        removed == [n \in DOMAIN polecats \ {name} |-> polecats[n]]
        kept == IF deleteOk THEN branches \ {name} ELSE branches
    IN  /\ rcall' = [name |-> name, force |-> force]
        /\ IF ~exists(name)
           THEN /\ op' = [name |-> "Recreate", err |-> "ErrPolecatNotFound"]
                /\ UNCHANGED <<polecats, work, branches>>
           ELSE IF RecreateRefused(force, status)
           THEN /\ op' = [name |-> "Recreate", err |-> "UncommittedWorkError"]
                /\ UNCHANGED <<polecats, work, branches>>
           ELSE IF out = "rm"
           THEN /\ op' = [name |-> "Recreate", err |-> "removing polecat dir"]
                /\ UNCHANGED <<polecats, work, branches>>
           ELSE IF out = "branchCheck"
           THEN /\ op' = [name |-> "Recreate",
                          err |-> "checking branch existence"]
                /\ polecats' = removed
                /\ branches' = kept
                /\ UNCHANGED work
           ELSE IF out = "add"
           THEN /\ op' = [name |-> "Recreate", err |-> "creating worktree"]
                /\ polecats' = removed
                /\ branches' = kept
                /\ UNCHANGED work
           ELSE /\ op' = [name |-> "Recreate", err |-> "nil"]
                /\ polecats' = removed (+) SetToBag({name})
                /\ branches' = kept \cup {name}
                /\ work' = [work EXCEPT ![name] = Fresh(@, name \in kept)]
        /\ UNCHANGED <<asked, pool, stateFile, ret, handed, sinceRewind>>
        /\ OnlyWorktrees

\* The workers whose worktrees are followed: the pool's themed names.
WorktreeNames == {BuiltinThemes[DefaultTheme][i] : i \in 1..PoolSize}

\* Add called for every followed name, git failing or not.
DoAddWorktree ==
    \E n \in WorktreeNames :
       \E g \in RelevantTo(~exists(n), BOOLEAN) : AddWorktree(n, g)

\* Remove / RemoveWithOptions called with every argument.
DoRemoveWorktree ==
    \E n \in WorktreeNames, f, nu \in BOOLEAN :
       RemoveWorktree(n, f, nu, TRUE, TRUE, TRUE)

\* Recreate called with every argument, each git call failing or not.
DoRecreate ==
    \E n \in WorktreeNames, f \in BOOLEAN :
       \E s \in RelevantTo(exists(n) /\ ~f, BOOLEAN) :
          \E out \in RelevantTo(exists(n) /\ (f \/ ~s \/ Clean(work[n])),
                                {"ok", "rm", "branchCheck", "add"}) :
             \E d \in RelevantTo(out # "rm", BOOLEAN) :
                Recreate(n, f, s, out, d)

\* Workers allocated, added, put to work, recreated and removed.
NextWorktrees ==
    \/ AllocateName(TRUE, TRUE)
    \/ DoAddWorktree
    \/ \E n \in WorktreeNames, st \in WorkStatuses : DoWork(n, st)
    \/ DoRemoveWorktree
    \/ DoRecreate

InitWorktrees ==
    /\ work = [n \in WorkerNames |-> Fresh(NoRemove.status, FALSE)]
    /\ branches = {}
    /\ rcall = NoRecreate

-----------------------------------------------------------------------------
(* Worker state, derived from the tracker                                  *)
-----------------------------------------------------------------------------

\* Number of issues in the rig's tracker.
NumIssues == 2

IssueIds == 1..NumIssues

\* The workers whose state is asked for and changed.
TrackedWorkers == {"furiosa", "nux"}

\* How the tracker answers during a call: every call succeeds, the query for
\* the assigned issue fails, or the update fails.
TrackerModes == {"ok", "unreachable", "update fails"}

States == {"working", "active", "done", "idle", "stuck"}

assigneeID(name) == RigName \o "/" \o name

\* beads.GetAssignedIssue: the issue assigned to the assignee (the first, when
\* there are several), 0 for none.
GetAssignedIssue(tr, assignee) ==
    IF \E i \in IssueIds : tr[i].Assignee = assignee
    THEN CHOOSE i \in IssueIds :
            /\ tr[i].Assignee = assignee
            /\ \A j \in IssueIds : tr[j].Assignee = assignee => i <= j
    ELSE 0

\* beads.Update of the fields given; "" leaves a field alone, "-" empties the
\* assignee.
Update(tr, i, status, assignee) ==
    [tr EXCEPT ![i] = [Status |-> IF status = "" THEN @.Status ELSE status,
                       Assignee |-> IF assignee = "" THEN @.Assignee
                                    ELSE IF assignee = "-" THEN ""
                                    ELSE assignee]]

\* Mutant of loadFromBeads: a closed issue still counts as work.
loadFromBeadsIgnoringClosed(tr, name, mode) ==
    IF mode = "unreachable" \/ GetAssignedIssue(tr, assigneeID(name)) = 0
    THEN "idle" ELSE "working"

\* loadFromBeads: the State of the Polecat record.
loadFromBeads(tr, name, mode) ==
    IF mode = "unreachable" THEN "idle"
    ELSE LET i == GetAssignedIssue(tr, assigneeID(name))
         IN  IF i = 0 THEN "idle"
             ELSE IF tr[i].Status \in {"open", "in_progress"} THEN "working"
             ELSE IF tr[i].Status = "closed" THEN "done"
             ELSE "working"

Outcome(tr, err) == [tracker |-> tr, err |-> err]

\* SetState, after its exists check.
SetState(tr, name, state, mode) ==
    LET i == GetAssignedIssue(tr, assigneeID(name))
    IN  IF mode = "unreachable" \/ i = 0 \/ state = "stuck" THEN Outcome(tr, "nil")
        ELSE IF state \in {"working", "active"}
        THEN IF mode = "update fails" THEN Outcome(tr, "setting issue status")
             ELSE Outcome(Update(tr, i, "in_progress", ""), "nil")
        ELSE IF mode = "update fails" THEN Outcome(tr, "clearing assignee")
             ELSE Outcome(Update(tr, i, "", "-"), "nil")

\* AssignIssue, after its exists check.
AssignIssue(tr, name, issue, mode) ==
    IF mode # "ok" THEN Outcome(tr, "setting issue assignee")
    ELSE Outcome(Update(tr, issue, "in_progress", assigneeID(name)), "nil")

\* ClearIssue, after its exists check.
ClearIssue(tr, name, mode) ==
    LET i == GetAssignedIssue(tr, assigneeID(name))
    IN  IF mode = "unreachable" \/ i = 0 THEN Outcome(tr, "nil")
        ELSE IF mode = "update fails" THEN Outcome(tr, "clearing issue assignee")
        ELSE Outcome(Update(tr, i, "", "-"), "nil")

Wake(tr, name, mode) ==
    IF loadFromBeads(tr, name, mode) \notin {"idle", "done"}
    THEN Outcome(tr, "polecat is not idle")
    ELSE SetState(tr, name, "working", mode)

Sleep(tr, name, mode) ==
    IF loadFromBeads(tr, name, mode) \notin {"active", "working"}
    THEN Outcome(tr, "polecat is not active")
    ELSE SetState(tr, name, "done", mode)

Finish(tr, name, mode) ==
    IF loadFromBeads(tr, name, mode) \notin {"working", "done", "stuck"}
    THEN Outcome(tr, "polecat is not in a finishing state")
    ELSE ClearIssue(tr, name, mode)

\* A call of one of the operations on a worker: ErrPolecatNotFound when the
\* worker's directory does not exist, the operation's outcome otherwise.
Call(opName, name, arg, outcome) ==
    /\ tracker' = IF exists(name) THEN outcome.tracker ELSE tracker
    /\ mres' = [name |-> opName, worker |-> name, arg |-> arg,
                err |-> IF exists(name) THEN outcome.err
                        ELSE "ErrPolecatNotFound",
                state |-> ""]
    /\ OnlyState

\* Get: the worker's State, or ErrPolecatNotFound.
Get(name, mode) ==
    /\ mres' = [name |-> "Get", worker |-> name, arg |-> "",
                err |-> IF exists(name) THEN "nil" ELSE "ErrPolecatNotFound",
                state |-> IF exists(name)
                          THEN loadFromBeads(tracker, name, mode) ELSE ""]
    /\ UNCHANGED tracker
    /\ OnlyState

DoSetState(name, state, mode) ==
    Call("SetState", name, state, SetState(tracker, name, state, mode))

DoAssignIssue(name, issue, mode) ==
    Call("AssignIssue", name, "", AssignIssue(tracker, name, issue, mode))

DoClearIssue(name, mode) ==
    Call("ClearIssue", name, "", ClearIssue(tracker, name, mode))

DoWake(name, mode) == Call("Wake", name, "", Wake(tracker, name, mode))

DoSleep(name, mode) == Call("Sleep", name, "", Sleep(tracker, name, mode))

DoFinish(name, mode) == Call("Finish", name, "", Finish(tracker, name, mode))

\* Reset: ClearIssue, whatever the state.
DoResetWorker(name, mode) ==
    Call("Reset", name, "", ClearIssue(tracker, name, mode))

\* The worker (or anyone else) closes or blocks an issue in the tracker.
TrackerSetsStatus(i, status) ==
    /\ tracker' = Update(tracker, i, status, "")
    /\ mres' = [name |-> "tracker", worker |-> "", arg |-> "", err |-> "nil",
                state |-> ""]
    /\ OnlyState

NextState ==
    \/ \E n \in TrackedWorkers : Add(n, TRUE)
    \/ \E n \in TrackedWorkers, m \in TrackerModes : Get(n, m)
    \/ \E n \in TrackedWorkers, st \in States, m \in TrackerModes :
          DoSetState(n, st, m)
    \/ \E n \in TrackedWorkers, i \in IssueIds, m \in TrackerModes :
          DoAssignIssue(n, i, m)
    \/ \E n \in TrackedWorkers, m \in TrackerModes : DoClearIssue(n, m)
    \/ \E n \in TrackedWorkers, m \in TrackerModes : DoWake(n, m)
    \/ \E n \in TrackedWorkers, m \in TrackerModes : DoSleep(n, m)
    \/ \E n \in TrackedWorkers, m \in TrackerModes : DoFinish(n, m)
    \/ \E n \in TrackedWorkers, m \in TrackerModes : DoResetWorker(n, m)
    \/ \E i \in IssueIds, st \in {"closed", "blocked"} : TrackerSetsStatus(i, st)

\* Every issue open and unassigned.
InitState ==
    /\ tracker = [i \in IssueIds |-> [Status |-> "open", Assignee |-> ""]]
    /\ mres = [name |-> "", worker |-> "", arg |-> "", err |-> "nil",
               state |-> ""]

-----------------------------------------------------------------------------
(* Refinery merge engine                                                   *)
-----------------------------------------------------------------------------

\* Number of merge requests the workers submit.
NumMRs == 2
\* Number of conflict-resolution tasks the tracker can create.
MaxTasks == 2

MRIds == 1..NumMRs
TaskIds == 1..MaxTasks

\* holder := e.rig.Name + "/refinery"
Refinery == RigName \o "/refinery"
\* Some other holder of the rig's merge slot.
OtherHolder == "gastown/crew"

NoMR ==
    [inQueue |-> FALSE, Priority |-> 0, SourceIssue |-> FALSE,
     RetryCount |-> 0, BlockedBy |-> 0, claim |-> "none"]

\* The MRs that are submitted: MR m has priority m % 3, and the odd ones name
\* a source issue. BlockedBy 0 stands for the empty task id.
SubmittedMR(m) ==
    [inQueue |-> TRUE, Priority |-> m % 3, SourceIssue |-> (m % 2 = 1),
     RetryCount |-> 0, BlockedBy |-> 0, claim |-> "none"]

NoIssue == [Status |-> "none", CloseReason |-> "", MergeCommit |-> ""]
NoTask == [Status |-> "none", Priority |-> 0]

\* result.MergeCommit of the merge of MR m.
MergeCommitOf(m) == "sha-" \o ToString(m)

\* The calls of one handler run that fail: none, or a single one.
FailureSets(calls) == {{}} \cup {{c} : c \in calls}

ShowCall(beadID) == "show-" \o ToString(beadID)

\* beads.MergeSlotAcquire(holder, false): a free slot is taken; the status
\* names the holder.
MergeSlotAcquire(slot, holder) ==
    IF slot = ""
    THEN [slot |-> holder, status |-> [Available |-> TRUE, Holder |-> holder]]
    ELSE [slot |-> slot, status |-> [Available |-> FALSE, Holder |-> slot]]

\* beads.MergeSlotRelease(holder): only the holder's slot is freed.
MergeSlotRelease(slot, holder) == IF slot = holder THEN "" ELSE slot

\* Mutant of IsBeadOpen: the status test is inverted.
IsBeadOpenInverted(beadID, failed) ==
    IF ShowCall(beadID) \in failed \/ tasks[beadID].Status = "none" THEN FALSE
    ELSE tasks[beadID].Status = "closed"

\* IsBeadOpen: a bead that Show cannot deliver counts as not open.
IsBeadOpen(beadID, failed) ==
    IF ShowCall(beadID) \in failed \/ tasks[beadID].Status = "none" THEN FALSE
    ELSE tasks[beadID].Status # "closed"

\* Priority score: priority first (the lower number is more urgent), then
\* the higher retry count, then the earlier enqueue.
Before(q, a, b) ==
    \/ q[a].Priority < q[b].Priority
    \/ q[a].Priority = q[b].Priority /\ q[a].RetryCount > q[b].RetryCount
    \/ q[a].Priority = q[b].Priority /\ q[a].RetryCount = q[b].RetryCount /\ a < b

RECURSIVE SortByScore(_, _)
SortByScore(q, S) ==
    IF S = {} THEN <<>>
    ELSE LET first == CHOOSE m \in S : \A n \in S \ {m} : Before(q, m, n)
         IN  <<first>> \o SortByScore(q, S \ {first})

\* mrqueue.ListReady(isOpen): the MRs without a live claim whose blocking
\* task isOpen does not report open, sorted by score.
ListReady(q, failed) ==
    SortByScore(q, {m \in MRIds :
        /\ q[m].inQueue
        /\ q[m].claim # "live"
        /\ IF q[m].BlockedBy = 0 THEN TRUE
           ELSE ~IsBeadOpen(q[m].BlockedBy, failed)})

\* mrqueue.SetBlockedBy(id, taskID)
SetBlockedBy(q, id, taskID) == [q EXCEPT ![id].BlockedBy = taskID]

\* mrqueue.Remove(id)
QueueRemove(q, id) == [q EXCEPT ![id] = NoMR]

\* P2 -> P1, P1 -> P0, P0 stays P0
boostedPriority(priority) == IF priority - 1 < 0 THEN 0 ELSE priority - 1

\* The id beads.Create gives to the next task.
NextTaskId ==
    CHOOSE t \in TaskIds :
        tasks[t].Status = "none" /\ \A u \in 1..(t - 1) : tasks[u].Status # "none"

\* createConflictResolutionTask: the merge slot gate, then beads.Create and the
\* retry count. taskID 0 with err FALSE is the deferred return ("", nil).
createConflictResolutionTask(m, failed) ==
    LET a == MergeSlotAcquire(slotHolder, Refinery)
        gated == "ensure" \notin failed /\ "acquire" \notin failed
        deferred == /\ gated
                    /\ ~a.status.Available
                    /\ a.status.Holder # ""
                    /\ a.status.Holder # Refinery
        slot == IF gated THEN a.slot ELSE slotHolder
    IN  IF deferred
        THEN [slot |-> slot, tasks |-> tasks, taskID |-> 0, err |-> FALSE,
              RetryCount |-> queue[m].RetryCount]
        ELSE IF "create" \in failed
        THEN [slot |-> slot, tasks |-> tasks, taskID |-> 0, err |-> TRUE,
              RetryCount |-> queue[m].RetryCount]
        ELSE [slot |-> slot,
              tasks |-> [tasks EXCEPT ![NextTaskId] =
                            [Status |-> "open",
                             Priority |-> boostedPriority(queue[m].Priority)]],
              taskID |-> NextTaskId, err |-> FALSE,
              RetryCount |-> queue[m].RetryCount + 1]

\* Mutant of closeMRBead: the bead is closed without the merge commit.
closeMRBeadWithoutCommit(issue, commit, failed) ==
    IF "close" \in failed THEN issue
    ELSE [issue EXCEPT !.Status = "closed", !.CloseReason = "merged"]

\* handleSuccessFromQueue, the MR bead: Show and Update record the merge
\* commit, CloseWithReason("merged") closes; each failure is only logged.
closeMRBead(issue, commit, failed) ==
    LET updated == IF "show" \in failed \/ "update" \in failed THEN issue
                   ELSE [issue EXCEPT !.MergeCommit = commit]
    IN  IF "close" \in failed THEN updated
        ELSE [updated EXCEPT !.Status = "closed", !.CloseReason = "merged"]

\* A step that neither logs an event nor sends a message.
NoEmit ==
    [event |-> "", sent |-> "", to |-> "", failureType |-> "",
     delivered |-> FALSE]

\* eventLogger.LogMerged / LogMergeFailed: the event reaches the feed unless
\* the logger returns an error, which the handlers only warn about.
LogEvent(event, failed) == IF "log" \in failed THEN "" ELSE event

\* router.Send(protocol.NewMergeFailedMessage(rig, ..., failureType, ...)):
\* the MERGE_FAILED message is addressed to the rig's witness; a Send error is
\* only warned about and the message is then not delivered.
SendMergeFailedAsBuild(failureType, failed) ==
    [sent |-> "MERGE_FAILED", to |-> RigName \o "/witness",
     failureType |-> "build", delivered |-> "send" \notin failed]

SendMergeFailed(failureType, failed) ==
    [sent |-> "MERGE_FAILED", to |-> RigName \o "/witness",
     failureType |-> failureType, delivered |-> "send" \notin failed]

Stepped(name, m, result, failed) ==
    mop' = [name |-> name, mr |-> m, result |-> result, failed |-> failed]

Did(name, m, result, failed) ==
    /\ Stepped(name, m, result, failed)
    /\ emits' = NoEmit

\* A worker submits its branch: the next MR enters the queue, with its issue
\* and, if it names one, its source issue open in the tracker; the branch has
\* been pushed to origin.
Enqueue ==
    /\ \E m \in MRIds :
          /\ issues[m].Status = "none"
          /\ \A n \in 1..(m - 1) : issues[n].Status # "none"
          /\ queue' = [queue EXCEPT ![m] = SubmittedMR(m)]
          /\ issues' = [issues EXCEPT ![m].Status = "open"]
          /\ sources' = [sources EXCEPT
                            ![m] = IF SubmittedMR(m).SourceIssue THEN "open" ELSE "none"]
          /\ refs' = [refs EXCEPT ![m] = [local |-> TRUE, origin |-> TRUE]]
          /\ Did("Enqueue", m, "", {})
    /\ UNCHANGED <<tasks, slotHolder, slotFor, ready, deleteMergedBranches>>
    /\ OnlyMerge

\* Another worker claims an MR of the queue.
Claim(m) ==
    /\ queue[m].inQueue /\ queue[m].claim = "none"
    /\ queue' = [queue EXCEPT ![m].claim = "live"]
    /\ Did("Claim", m, "", {})
    /\ UNCHANGED <<issues, sources, tasks, slotHolder, slotFor, ready>>
    /\ UNCHANGED <<refs, deleteMergedBranches>>
    /\ OnlyMerge

\* The claim's expiry time passes.
ExpireClaim(m) ==
    /\ queue[m].inQueue /\ queue[m].claim = "live"
    /\ queue' = [queue EXCEPT ![m].claim = "expired"]
    /\ Did("ExpireClaim", m, "", {})
    /\ UNCHANGED <<issues, sources, tasks, slotHolder, slotFor, ready>>
    /\ UNCHANGED <<refs, deleteMergedBranches>>
    /\ OnlyMerge

\* Step 6 of the task's instructions: the resolver closes the task.
CloseTask(t) ==
    /\ tasks[t].Status = "open"
    /\ tasks' = [tasks EXCEPT ![t].Status = "closed"]
    /\ Did("CloseTask", 0, "", {})
    /\ UNCHANGED <<queue, issues, sources, slotHolder, slotFor, ready>>
    /\ UNCHANGED <<refs, deleteMergedBranches>>
    /\ OnlyMerge

\* Someone else takes the free merge slot.
OtherAcquire ==
    /\ slotHolder' = MergeSlotAcquire(slotHolder, OtherHolder).slot
    /\ slotHolder' # slotHolder
    /\ Did("OtherAcquire", 0, "", {})
    /\ UNCHANGED <<queue, issues, sources, tasks, slotFor, ready>>
    /\ UNCHANGED <<refs, deleteMergedBranches>>
    /\ OnlyMerge

\* The other holder releases the slot.
OtherRelease ==
    /\ slotHolder' = MergeSlotRelease(slotHolder, OtherHolder)
    /\ slotHolder' # slotHolder
    /\ Did("OtherRelease", 0, "", {})
    /\ UNCHANGED <<queue, issues, sources, tasks, slotFor, ready>>
    /\ UNCHANGED <<refs, deleteMergedBranches>>
    /\ OnlyMerge

\* The operator clears the slot the engine holds.
OperatorClear ==
    /\ slotHolder = Refinery
    /\ slotHolder' = ""
    /\ slotFor' = 0
    /\ Did("OperatorClear", 0, "", {})
    /\ UNCHANGED <<queue, issues, sources, tasks, ready>>
    /\ UNCHANGED <<refs, deleteMergedBranches>>
    /\ OnlyMerge

\* ListReadyMRs: e.mrQueue.ListReady(e.IsBeadOpen)
ListReadyMRs(failed) ==
    /\ ready' = ListReady(queue, failed)
    /\ Did("ListReadyMRs", 0, "", failed)
    /\ UNCHANGED <<queue, issues, sources, tasks, slotHolder, slotFor>>
    /\ UNCHANGED <<refs, deleteMergedBranches>>
    /\ OnlyMerge

\* handleSuccessFromQueue for the next MR of the ready list, merged: slot
\* release, MR bead, source issue, git.DeleteBranch of the source branch when
\* DeleteMergedBranches is set, queue removal.
handleSuccessFromQueue(failed) ==
    /\ ready # <<>>
    /\ LET m == Head(ready)
       IN  /\ slotHolder' = IF "release" \in failed THEN slotHolder
                            ELSE MergeSlotRelease(slotHolder, Refinery)
           /\ slotFor' = IF slotHolder' = Refinery THEN slotFor ELSE 0
           /\ issues' = [issues EXCEPT
                            ![m] = closeMRBead(@, MergeCommitOf(m), failed)]
           /\ sources' = IF queue[m].SourceIssue /\ "closeSource" \notin failed
                         THEN [sources EXCEPT ![m] = "closed"]
                         ELSE sources
           /\ refs' = IF deleteMergedBranches /\ "deleteBranch" \notin failed
                      THEN [refs EXCEPT ![m].local = FALSE]
                      ELSE refs
           /\ queue' = IF "remove" \in failed THEN queue
                       ELSE QueueRemove(queue, m)
           /\ Stepped("handleSuccessFromQueue", m, "success", failed)
           /\ emits' = [NoEmit EXCEPT !.event = LogEvent("merged", failed)]
    /\ ready' = Tail(ready)
    /\ UNCHANGED <<tasks, deleteMergedBranches>>
    /\ OnlyMerge

\* handleFailureFromQueue for the next MR of the ready list: the merge_failed
\* event, the MERGE_FAILED message with the failure type of the result, and
\* then, for a conflict only, createConflictResolutionTask and, unless that
\* returned an error, SetBlockedBy with the task id it returned.
handleFailureFromQueue(result, failed) ==
    /\ ready # <<>>
    /\ IF result = "conflict"
       THEN \E t \in TaskIds : tasks[t].Status = "none"
       ELSE failed \subseteq {"log", "send"}
    /\ LET m == Head(ready)
           c == createConflictResolutionTask(m, failed)
           counted == [queue EXCEPT ![m].RetryCount = c.RetryCount]
       IN  /\ IF result = "conflict"
              THEN /\ slotHolder' = c.slot
                   /\ slotFor' = IF slotHolder # Refinery /\ c.slot = Refinery
                                 THEN m ELSE slotFor
                   /\ tasks' = c.tasks
                   /\ queue' = IF c.err \/ "setBlockedBy" \in failed THEN counted
                               ELSE SetBlockedBy(counted, m, c.taskID)
              ELSE UNCHANGED <<slotHolder, slotFor, tasks, queue>>
           /\ Stepped("handleFailureFromQueue", m, result, failed)
           /\ emits' = [event |-> LogEvent("merge_failed", failed)]
                         @@ SendMergeFailed(result, failed)
    /\ ready' = Tail(ready)
    /\ UNCHANGED <<issues, sources>>
    /\ UNCHANGED <<refs, deleteMergedBranches>>
    /\ OnlyMerge

NextMerge ==
    \/ Enqueue
    \/ \E m \in MRIds : Claim(m)
    \/ \E m \in MRIds : ExpireClaim(m)
    \/ \E t \in TaskIds : CloseTask(t)
    \/ OtherAcquire
    \/ OtherRelease
    \/ OperatorClear
    \/ \E failed \in FailureSets({ShowCall(t) : t \in TaskIds}) : ListReadyMRs(failed)
    \/ \E failed \in FailureSets({"log", "release", "show", "update", "close",
                                  "closeSource", "deleteBranch", "remove"}) :
          handleSuccessFromQueue(failed)
    \/ \E result \in {"conflict", "tests", "build"},
          failed \in FailureSets({"log", "send", "ensure", "acquire", "create",
                                  "setBlockedBy"}) :
          handleFailureFromQueue(result, failed)

\* NewEngineer: an empty queue, a free slot.
InitMerge(configs) ==
    /\ refs = [m \in MRIds |-> [local |-> FALSE, origin |-> FALSE]]
    /\ deleteMergedBranches \in configs
    /\ queue = [m \in MRIds |-> NoMR]
    /\ issues = [m \in MRIds |-> NoIssue]
    /\ sources = [m \in MRIds |-> "none"]
    /\ tasks = [t \in TaskIds |-> NoTask]
    /\ slotHolder = ""
    /\ slotFor = 0
    /\ ready = <<>>
    /\ mop = [name |-> "NewEngineer", mr |-> 0, result |-> "", failed |-> {}]
    /\ emits = NoEmit



-----------------------------------------------------------------------------
(* Callback classification                                                 *)
-----------------------------------------------------------------------------

\* Longest subject line, counted in symbols.
MaxSubjectLen == 3

\* The literal each pattern starts with; none is a prefix of another, so a
\* subject is a sequence of these literals and of single characters.
Keywords ==
    {"POLECAT_DONE", "Merge Request Rejected:", "Merge Request Completed:",
     "HELP:", "ESCALATION:", "SLING_REQUEST:", "WITNESS_REPORT:",
     "REFINERY_REPORT:"}

\* A blank, a newline, and a character that is not white space.
Symbols == Keywords \cup {" ", "\n", "x"}

Whitespace == {" ", "\n"}

Subjects == UNION {[1..n -> Symbols] : n \in 0..MaxSubjectLen}

\* The patterns in the order classifyCallback tries them: the literal, the
\* class of the character that has to follow the white space (\S or .), and
\* the CallbackType of the row.
Patterns ==
    <<[literal |-> "POLECAT_DONE", then |-> "\\S", type |-> "polecat_done"],
      [literal |-> "Merge Request Rejected:", then |-> ".", type |-> "merge_rejected"],
      [literal |-> "Merge Request Completed:", then |-> ".", type |-> "merge_completed"],
      [literal |-> "HELP:", then |-> ".", type |-> "help"],
      [literal |-> "ESCALATION:", then |-> ".", type |-> "escalation"],
      [literal |-> "SLING_REQUEST:", then |-> "\\S", type |-> "sling"],
      [literal |-> "WITNESS_REPORT:", then |-> "\\S", type |-> "witness_report"],
      [literal |-> "REFINERY_REPORT:", then |-> "\\S", type |-> "refinery_report"]>>

CallbackUnknown == "unknown"

\* A symbol the class matches with its first character: \S anything but white
\* space, . anything but a newline.
InClass(class, sym) ==
    IF class = "\\S" THEN sym \notin Whitespace ELSE sym # "\n"

\* regexp.MatchString for ^literal\s+(class+): the literal at the start, one
\* or more white-space characters, then a character of the class.
MatchString(pat, s) ==
    /\ Len(s) >= 3
    /\ s[1] = pat.literal
    /\ \E k \in 2..(Len(s) - 1) :
          /\ \A j \in 2..k : s[j] \in Whitespace
          /\ InClass(pat.then, s[k + 1])

RECURSIVE firstMatch(_, _, _)
\* The switch: the type of the first pattern, from row i on, that matches.
firstMatch(table, i, s) ==
    IF i > Len(table) THEN CallbackUnknown
    ELSE IF MatchString(table[i], s) THEN table[i].type
    ELSE firstMatch(table, i + 1, s)

\* Mutant of classifyCallback: the literal alone decides.
classifyByLiteral(s) ==
    IF s # <<>> /\ \E i \in 1..Len(Patterns) : Patterns[i].literal = s[1]
    THEN Patterns[CHOOSE i \in 1..Len(Patterns) : Patterns[i].literal = s[1]].type
    ELSE CallbackUnknown

classifyCallback(s) == firstMatch(Patterns, 1, s)

\* The mayor classifies the message at hand.
Classify ==
    /\ kind = ""
    /\ kind' = classifyCallback(subject)
    /\ UNCHANGED subject
    /\ OnlyCallback

NextCallback == Classify

\* A message with the given subject waits in the inbox.
InitCallback(s) ==
    /\ subject = s
    /\ kind = ""

-----------------------------------------------------------------------------
(* Callback processing                                                     *)
-----------------------------------------------------------------------------

\* Most messages waiting in the inbox when the command starts.
MaxInbox == 2

\* A message: its subject, whether its body names a rig (Rig:) and a source
\* issue (Source:).
Msg(id, subj, rig, source) ==
    [ID |-> id, From |-> "gastown/witness", Subject |-> subj, Rig |-> rig,
     Source |-> source]

\* One message for each pattern, a sling request without a rig, a completed
\* merge without a source issue, and subjects that match no pattern.
Mail ==
    {Msg(1, <<"POLECAT_DONE", " ", "x">>, "", ""),
     Msg(2, <<"Merge Request Rejected:", " ", "x">>, "", ""),
     Msg(3, <<"Merge Request Completed:", " ", "x">>, "", "gt-1"),
     Msg(4, <<"Merge Request Completed:", " ", "x">>, "", ""),
     Msg(5, <<"HELP:", " ", "x">>, "", ""),
     Msg(6, <<"ESCALATION:", " ", "x">>, "", ""),
     Msg(7, <<"SLING_REQUEST:", " ", "x">>, "gastown", ""),
     Msg(8, <<"SLING_REQUEST:", " ", "x">>, "", ""),
     Msg(9, <<"WITNESS_REPORT:", " ", "x">>, "", ""),
     Msg(10, <<"REFINERY_REPORT:", " ", "x">>, "", ""),
     Msg(11, <<"HELP:">>, "", ""),
     Msg(12, <<"x", " ", "HELP:">>, "", "")}

\* The calls of a handler that can fail.
CallbackFailures == {"none", "send", "close", "delete"}

NoMail == [To |-> "", Priority |-> "", Sender |-> "", Of |-> 0]

\* What a handler returns and does: its error, the message it sends, whether
\* it writes the town log, the issue it closes.
Handling(err, fwd, logs, closes) ==
    [err |-> err, fwd |-> fwd, logs |-> logs, closes |-> closes]

\* Mutant of handleHelp: the dry-run return comes after the Send.
handleHelpSendingInDryRun(msg, dryRun, failed) ==
    IF failed = "send"
    THEN Handling("forwarding to overseer", NoMail, FALSE, "")
    ELSE Handling("nil",
                  [To |-> "overseer", Priority |-> "high",
                   Sender |-> msg.From, Of |-> msg.ID],
                  ~dryRun, "")

\* handleHelp: forwards to overseer with priority high, the body starting
\* with "Forwarded from: <sender>", then logs.
handleHelp(msg, dryRun, failed) ==
    IF dryRun THEN Handling("nil", NoMail, FALSE, "")
    ELSE IF failed = "send"
    THEN Handling("forwarding to overseer", NoMail, FALSE, "")
    ELSE Handling("nil",
                  [To |-> "overseer", Priority |-> "high",
                   Sender |-> msg.From, Of |-> msg.ID],
                  TRUE, "")

handleEscalation(msg, dryRun, failed) ==
    IF dryRun THEN Handling("nil", NoMail, FALSE, "")
    ELSE IF failed = "send"
    THEN Handling("forwarding escalation", NoMail, FALSE, "")
    ELSE Handling("nil",
                  [To |-> "overseer", Priority |-> "urgent",
                   Sender |-> msg.From, Of |-> msg.ID],
                  TRUE, "")

\* handleMergeCompleted: logs, and closes the source issue when the body names
\* one; a failing Close is not an error.
handleMergeCompleted(msg, dryRun, failed) ==
    IF dryRun THEN Handling("nil", NoMail, FALSE, "")
    ELSE Handling("nil", NoMail, TRUE,
                  IF failed = "close" THEN "" ELSE msg.Source)

\* handleSling: an error without a Rig: line, before the dry-run return.
handleSling(msg, dryRun, failed) ==
    IF msg.Rig = "" THEN Handling("no target rig specified", NoMail, FALSE, "")
    ELSE Handling("nil", NoMail, ~dryRun, "")

\* handlePolecatDone, handleMergeRejected, handleWitnessReport,
\* handleRefineryReport: a town-log entry unless dry-run.
handleLogging(msg, dryRun, failed) == Handling("nil", NoMail, ~dryRun, "")

\* Mutant of processCallback: a message of unknown type counts as handled.
processCallbackHandlingUnknown(msg, dryRun, failed) ==
    LET type == classifyCallback(msg.Subject)
        h == IF type = "help" THEN handleHelp(msg, dryRun, failed)
             ELSE IF type = "escalation" THEN handleEscalation(msg, dryRun, failed)
             ELSE IF type = "merge_completed"
             THEN handleMergeCompleted(msg, dryRun, failed)
             ELSE IF type = "sling" THEN handleSling(msg, dryRun, failed)
             ELSE handleLogging(msg, dryRun, failed)
    IN  [MessageID |-> msg.ID, CallbackType |-> type,
         Handled |-> h.err = "nil", Error |-> h.err, effect |-> h,
         deletes |-> h.err = "nil" /\ ~dryRun /\ failed # "delete"]

\* Mutant of processCallback: the message is deleted whatever the handler
\* returned.
processCallbackAlwaysDeleting(msg, dryRun, failed) ==
    LET type == classifyCallback(msg.Subject)
        h == IF type = "help" THEN handleHelp(msg, dryRun, failed)
             ELSE IF type = "escalation" THEN handleEscalation(msg, dryRun, failed)
             ELSE IF type = "merge_completed"
             THEN handleMergeCompleted(msg, dryRun, failed)
             ELSE IF type = "sling" THEN handleSling(msg, dryRun, failed)
             ELSE IF type = CallbackUnknown THEN Handling("nil", NoMail, FALSE, "")
             ELSE handleLogging(msg, dryRun, failed)
    IN  [MessageID |-> msg.ID, CallbackType |-> type,
         Handled |-> type # CallbackUnknown /\ h.err = "nil",
         Error |-> h.err, effect |-> h,
         deletes |-> ~dryRun /\ failed # "delete"]

\* processCallback: classify, dispatch, and delete the message when it was
\* handled and this is no dry run; the error of Delete is dropped.
processCallback(msg, dryRun, failed) ==
    LET type == classifyCallback(msg.Subject)
        h == IF type = "help" THEN handleHelp(msg, dryRun, failed)
             ELSE IF type = "escalation" THEN handleEscalation(msg, dryRun, failed)
             ELSE IF type = "merge_completed"
             THEN handleMergeCompleted(msg, dryRun, failed)
             ELSE IF type = "sling" THEN handleSling(msg, dryRun, failed)
             ELSE IF type = CallbackUnknown THEN Handling("nil", NoMail, FALSE, "")
             ELSE handleLogging(msg, dryRun, failed)
    IN  [MessageID |-> msg.ID, CallbackType |-> type,
         Handled |-> type # CallbackUnknown /\ h.err = "nil",
         Error |-> h.err, effect |-> h,
         deletes |-> type # CallbackUnknown /\ h.err = "nil" /\ ~dryRun
                        /\ failed # "delete"]

NoResult ==
    [MessageID |-> 0, CallbackType |-> "", Handled |-> FALSE, Error |-> "nil",
     effect |-> Handling("nil", NoMail, FALSE, ""), deletes |-> FALSE]

\* mailbox.Delete(id)
DeleteMessage(box, id) == SelectSeq(box, LAMBDA x : x.ID # id)

\* runCallbacksProcess up to its loop: the unread messages are listed.
runCallbacksProcess(dryRun) ==
    /\ pending = <<>>
    /\ pending' = inbox
    /\ dry' = dryRun
    /\ cres' = NoResult
    /\ UNCHANGED <<inbox, sent, townLog, beadsClosed>>
    /\ OnlyInbox

\* One turn of the loop of runCallbacksProcess: processCallback on the next
\* message of the list.
processNext(failed) ==
    /\ pending # <<>>
    /\ LET msg == Head(pending)
           r == processCallback(msg, dry, failed)
       IN  /\ cres' = r
           /\ sent' = sent \cup ({r.effect.fwd} \ {NoMail})
           /\ townLog' = townLog \cup (IF r.effect.logs THEN {msg.ID} ELSE {})
           /\ beadsClosed' = beadsClosed \cup ({r.effect.closes} \ {""})
           /\ inbox' = IF r.deletes THEN DeleteMessage(inbox, msg.ID) ELSE inbox
    /\ pending' = Tail(pending)
    /\ UNCHANGED dry
    /\ OnlyInbox

NextInbox ==
    \/ \E d \in BOOLEAN : runCallbacksProcess(d)
    \/ \E f \in CallbackFailures : processNext(f)

\* The inboxes the command can find: up to MaxInbox different messages.
Inboxes ==
    {box \in UNION {[1..n -> Mail] : n \in 0..MaxInbox} :
        \A i, j \in 1..Len(box) : i # j => box[i].ID # box[j].ID}

InitInbox(box) ==
    /\ inbox = box
    /\ pending = <<>>
    /\ dry = FALSE
    /\ sent = {}
    /\ townLog = {}
    /\ beadsClosed = {}
    /\ cres = NoResult

-----------------------------------------------------------------------------
(* gt prime and the tracker redirect of a worker directory                  *)
-----------------------------------------------------------------------------

Roles == {"mayor", "deacon", "witness", "refinery", "polecat", "crew", "unknown"}
\* The roles acquireIdentityLock and ensureBeadsRedirect act for.
WorkerRoles == {"polecat", "crew"}

\* A missing redirect file.
NoRedirect == <<>>
\* What os.WriteFile puts into the file: the path, then what follows it.
FileOf(path, tail) == <<path, tail>>

InitPrime(roles, mayorBeads) ==
    /\ role \in roles
    /\ ppc = [p \in Procs |-> "idle"]
    /\ redirect = NoRedirect
    /\ mayorRigBeads \in mayorBeads
    /\ rigRootBeads = FALSE
    /\ emitted = [p \in Procs |-> FALSE]
    /\ pres = [p \in Procs |-> "none"]

\* runPrime up to detectRole.
runPrime(p) ==
    /\ p \in alive /\ ppc[p] = "idle" /\ lpc[p] = "idle"
    /\ clock < MaxClock
    /\ ppc' = [ppc EXCEPT ![p] = "lock"]
    /\ emitted' = [emitted EXCEPT ![p] = FALSE]
    /\ pres' = [pres EXCEPT ![p] = "none"]
    /\ UNCHANGED <<role, redirect, mayorRigBeads, rigRootBeads>>
    /\ OnlyPrime

\* Mutant of acquireIdentityLock: no role takes the lock.
acquireIdentityLockSkipped(p, s) ==
    /\ p \in alive /\ ppc[p] = "lock"
    /\ ppc' = [ppc EXCEPT ![p] = "redirect"]
    /\ UNCHANGED lockVars
    /\ UNCHANGED <<role, redirect, mayorRigBeads, rigRootBeads, emitted, pres>>
    /\ OnlyLockAndPrime

\* acquireIdentityLock: returns nil at once unless the role is polecat or
\* crew; for those it calls l.Acquire(sessionID).
acquireIdentityLock(p, s) ==
    /\ p \in alive /\ ppc[p] = "lock"
    /\ IF role \notin WorkerRoles
       THEN /\ ppc' = [ppc EXCEPT ![p] = "redirect"]
            /\ UNCHANGED lockVars
       ELSE /\ AcquireReadStep(p, s)
            /\ ppc' = [ppc EXCEPT ![p] = "acquire"]
    /\ UNCHANGED <<role, redirect, mayorRigBeads, rigRootBeads, emitted, pres>>
    /\ OnlyLockAndPrime

\* l.Acquire has returned: runPrime returns the error, or goes on.
acquireReturns(p) ==
    /\ p \in alive /\ ppc[p] = "acquire"
    /\ lpc[p] = "idle" /\ lres[p] # "none"
    /\ IF lres[p] = "ok"
       THEN /\ ppc' = [ppc EXCEPT ![p] = "redirect"]
            /\ UNCHANGED pres
       ELSE /\ ppc' = [ppc EXCEPT ![p] = "idle"]
            /\ pres' = [pres EXCEPT ![p] = "cannot claim identity"]
    /\ UNCHANGED <<role, redirect, mayorRigBeads, rigRootBeads, emitted>>
    /\ OnlyPrime

\* The content ensureBeadsRedirect chooses: the mayor's clone first, then the
\* rig root; "" when neither has a .beads directory.
redirectContent(mayorBeads, rigBeads) ==
    IF mayorBeads THEN "../../mayor/rig/.beads"
    ELSE IF rigBeads THEN "../../.beads"
    ELSE ""

\* ensureBeadsRedirect: for polecat and crew, when the file is missing and a
\* shared .beads exists, write the content and a newline; errors are dropped.
ensureBeadsRedirect(p, ok) ==
    /\ p \in alive /\ ppc[p] = "redirect"
    /\ redirect' =
          IF /\ role \in WorkerRoles
             /\ redirect = NoRedirect
             /\ redirectContent(mayorRigBeads, rigRootBeads) # ""
             /\ ok
          THEN FileOf(redirectContent(mayorRigBeads, rigRootBeads), "\n")
          ELSE redirect
    /\ ppc' = [ppc EXCEPT ![p] = "context"]
    /\ UNCHANGED <<role, mayorRigBeads, rigRootBeads, emitted, pres>>
    /\ OnlyPrime

\* outputPrimeContext and the outputs after it.
outputPrimeContext(p, ok) ==
    /\ p \in alive /\ ppc[p] = "context"
    /\ emitted' = [emitted EXCEPT ![p] = ok]
    /\ pres' = [pres EXCEPT ![p] = IF ok THEN "nil" ELSE "output failed"]
    /\ ppc' = [ppc EXCEPT ![p] = "idle"]
    /\ UNCHANGED <<role, redirect, mayorRigBeads, rigRootBeads>>
    /\ OnlyPrime

\* setupSharedBeads, as Add and Recreate call it for a polecat directory:
\* MkdirAll of <rig>/.beads, then the redirect file.
setupSharedBeads(mkdirOk, writeOk) ==
    /\ role = "polecat"
    /\ rigRootBeads' = (rigRootBeads \/ mkdirOk)
    /\ redirect' = IF mkdirOk /\ writeOk THEN FileOf("../../.beads", "\n")
                   ELSE redirect
    /\ UNCHANGED <<role, ppc, mayorRigBeads, emitted, pres>>
    /\ OnlyPrime

\* git clean or another operation removes the redirect file.
RedirectLost ==
    /\ redirect # NoRedirect
    /\ redirect' = NoRedirect
    /\ UNCHANGED <<role, ppc, mayorRigBeads, rigRootBeads, emitted, pres>>
    /\ OnlyPrime

NextPrime ==
    \/ \E p \in Procs : runPrime(p)
    \/ \E p \in Procs, s \in Sessions : acquireIdentityLock(p, s)
    \/ \E p \in Procs : AcquireProbe(p)
    \/ \E p \in Procs : AcquireRemoveStale(p)
    \/ \E p \in Procs : writeOpen(p)
    \/ \E p \in Procs : writeData(p)
    \/ \E p \in Procs : acquireReturns(p)
    \/ \E p \in Procs, ok \in BOOLEAN : ensureBeadsRedirect(p, ok)
    \/ \E p \in Procs, ok \in BOOLEAN : outputPrimeContext(p, ok)
    \/ \E p \in Procs : Die(p)
    \/ \E mk, wr \in BOOLEAN : setupSharedBeads(mk, wr)
    \/ RedirectLost

-----------------------------------------------------------------------------
(* doMerge: one merge run of the engine                                     *)
-----------------------------------------------------------------------------

\* Largest retry_flaky_tests configured in the model.
MaxRetries == 2

ProcessResult(success, conflict, testsFailed, error) ==
    [Success |-> success, Conflict |-> conflict, TestsFailed |-> testsFailed,
     Error |-> error]

NoRun == ProcessResult(FALSE, FALSE, FALSE, "")

InitRun(testCfgs, retries) ==
    /\ dpc = "idle"
    /\ steps = <<>>
    /\ runResult = NoRun
    /\ attempt = 0
    /\ canceled = FALSE
    /\ runTestsCfg \in testCfgs
    /\ retryFlakyTests \in retries
    /\ merged = FALSE
    /\ pushed = FALSE
    /\ notified = ""
    /\ failedStep = ""

\* A step taken, and how its call came out.
Step(name, out) == [step |-> name, out |-> out]

Outcome01(ok) == IF ok THEN "ok" ELSE "error"

\* The run goes on to step next, having taken step name.
Goes(name, out, next) ==
    /\ steps' = Append(steps, Step(name, out))
    /\ dpc' = next
    /\ UNCHANGED <<runResult, failedStep>>

\* Mutant of Returns: the failure is noted and the run goes on.
ReturnsLater(name, out, r) ==
    /\ steps' = Append(steps, Step(name, out))
    /\ dpc' = IF name = "BranchExists" THEN "Checkout"
              ELSE IF name = "Checkout" THEN "Pull"
              ELSE IF name = "CheckConflicts" THEN "MergeNoFF"
              ELSE "returned"
    /\ runResult' = r
    /\ failedStep' = IF failedStep = "" THEN name ELSE failedStep

\* doMerge returns r at step name, which failed.
Returns(name, out, r) ==
    /\ steps' = Append(steps, Step(name, out))
    /\ dpc' = "returned"
    /\ runResult' = r
    /\ failedStep' = IF failedStep = "" THEN name ELSE failedStep

\* ProcessMRFromQueue: doMerge is entered.
ProcessMRFromQueue ==
    /\ dpc = "idle"
    /\ dpc' = "BranchExists"
    /\ steps' = <<>>
    /\ runResult' = NoRun
    /\ attempt' = 0
    /\ merged' = FALSE
    /\ pushed' = FALSE
    /\ notified' = ""
    /\ failedStep' = ""
    /\ UNCHANGED <<canceled, runTestsCfg, retryFlakyTests>>
    /\ OnlyRun

\* Step 1: e.git.BranchExists(branch).
BranchExists(out) ==
    /\ dpc = "BranchExists"
    /\ IF out = "yes" THEN Goes("BranchExists", out, "Checkout")
       ELSE IF out = "no"
       THEN Returns("BranchExists", out,
                    ProcessResult(FALSE, FALSE, FALSE, "branch not found locally"))
       ELSE Returns("BranchExists", out,
                    ProcessResult(FALSE, FALSE, FALSE, "failed to check branch"))
    /\ UNCHANGED <<attempt, canceled, runTestsCfg, retryFlakyTests, merged,
                   pushed, notified>>
    /\ OnlyRun

\* Step 2: e.git.Checkout(target).
Checkout(ok) ==
    /\ dpc = "Checkout"
    /\ IF ok THEN Goes("Checkout", "ok", "Pull")
       ELSE Returns("Checkout", "error",
                    ProcessResult(FALSE, FALSE, FALSE, "failed to checkout target"))
    /\ UNCHANGED <<attempt, canceled, runTestsCfg, retryFlakyTests, merged,
                   pushed, notified>>
    /\ OnlyRun

\* e.git.Pull("origin", target): a failure is a warning and the run goes on.
Pull(ok) ==
    /\ dpc = "Pull"
    /\ steps' = Append(steps, Step("Pull", Outcome01(ok)))
    /\ dpc' = "CheckConflicts"
    /\ failedStep' = IF ~ok /\ failedStep = "" THEN "Pull" ELSE failedStep
    /\ UNCHANGED <<runResult, attempt, canceled, runTestsCfg, retryFlakyTests,
                   merged, pushed, notified>>
    /\ OnlyRun

\* Step 3: e.git.CheckConflicts(branch, target); an error of the check is
\* reported as a conflict too.
CheckConflicts(out) ==
    /\ dpc = "CheckConflicts"
    /\ IF out = "none"
       THEN Goes("CheckConflicts", out, IF runTestsCfg THEN "runTests" ELSE "MergeNoFF")
       ELSE IF out = "some"
       THEN Returns("CheckConflicts", out,
                    ProcessResult(FALSE, TRUE, FALSE, "merge conflicts in"))
       ELSE Returns("CheckConflicts", out,
                    ProcessResult(FALSE, TRUE, FALSE, "conflict check failed"))
    /\ UNCHANGED <<attempt, canceled, runTestsCfg, retryFlakyTests, merged,
                   pushed, notified>>
    /\ OnlyRun

\* maxRetries of runTests: RetryFlakyTests, at least 1.
maxRetries(retry) == IF retry < 1 THEN 1 ELSE retry

\* The loop of runTests takes another turn after the attempt numbered n.
tryAgain(passed, n, retry, ctxErr) ==
    ~passed /\ ~ctxErr /\ n < maxRetries(retry)

\* What runTests returns after its last attempt.
runTests(passed, ctxErr) ==
    IF passed THEN ProcessResult(TRUE, FALSE, FALSE, "")
    ELSE IF ctxErr THEN ProcessResult(FALSE, FALSE, FALSE, "test run canceled")
    ELSE ProcessResult(FALSE, FALSE, TRUE, "tests failed after attempts")

\* Step 4 of doMerge: what it makes of a failed result of runTests.
testsResult(r) == ProcessResult(FALSE, FALSE, TRUE, r.Error)

\* One attempt of runTests: cmd.Run(); a command under a canceled context
\* does not succeed.
TestAttempt(passed) ==
    /\ dpc = "runTests"
    /\ canceled => ~passed
    /\ attempt' = attempt + 1
    /\ LET r == runTests(passed, canceled)
       IN  IF tryAgain(passed, attempt + 1, retryFlakyTests, canceled)
           THEN /\ steps' = IF attempt = 0 THEN Append(steps, Step("runTests", "run"))
                          ELSE steps
                /\ UNCHANGED <<dpc, runResult, failedStep>>
           ELSE /\ steps' = IF attempt = 0 THEN Append(steps, Step("runTests", "run"))
                          ELSE steps
                /\ IF r.Success
                   THEN /\ dpc' = "MergeNoFF"
                        /\ UNCHANGED <<runResult, failedStep>>
                   ELSE /\ dpc' = "returned"
                        /\ runResult' = testsResult(r)
                        /\ failedStep' = IF failedStep = "" THEN "runTests"
                                         ELSE failedStep
    /\ UNCHANGED <<canceled, runTestsCfg, retryFlakyTests, merged, pushed,
                   notified>>
    /\ OnlyRun

\* Step 5: e.git.MergeNoFF; on an error unmerged paths mean a conflict and
\* the merge is aborted.
MergeNoFF(out) ==
    /\ dpc = "MergeNoFF"
    /\ IF out = "ok" THEN Goes("MergeNoFF", out, "Rev")
       ELSE IF out = "unmerged"
       THEN Returns("MergeNoFF", out,
                    ProcessResult(FALSE, TRUE, FALSE,
                                  "merge conflict during actual merge"))
       ELSE Returns("MergeNoFF", out, ProcessResult(FALSE, FALSE, FALSE, "merge failed"))
    /\ merged' = (out = "ok")
    /\ UNCHANGED <<attempt, canceled, runTestsCfg, retryFlakyTests, pushed,
                   notified>>
    /\ OnlyRun

\* Step 6: e.git.Rev("HEAD").
Rev(ok) ==
    /\ dpc = "Rev"
    /\ IF ok THEN Goes("Rev", "ok", "Push")
       ELSE Returns("Rev", "error",
                    ProcessResult(FALSE, FALSE, FALSE,
                                  "failed to get merge commit SHA"))
    /\ UNCHANGED <<attempt, canceled, runTestsCfg, retryFlakyTests, merged,
                   pushed, notified>>
    /\ OnlyRun

\* Step 7: e.git.Push("origin", target, false), and the successful return.
Push(ok) ==
    /\ dpc = "Push"
    /\ steps' = Append(steps, Step("Push", Outcome01(ok)))
    /\ dpc' = "returned"
    /\ runResult' = IF ok THEN ProcessResult(TRUE, FALSE, FALSE, "")
                 ELSE ProcessResult(FALSE, FALSE, FALSE, "failed to push to origin")
    /\ failedStep' = IF ~ok /\ failedStep = "" THEN "Push" ELSE failedStep
    /\ pushed' = ok
    /\ UNCHANGED <<attempt, canceled, runTestsCfg, retryFlakyTests, merged,
                   notified>>
    /\ OnlyRun

\* handleFailureFromQueue: the failure type of the MERGE_FAILED message.
failureType(r) ==
    IF r.Conflict THEN "conflict"
    ELSE IF r.TestsFailed THEN "tests"
    ELSE "build"

\* The result goes to its handler; a failure is reported to the witness.
HandleResult ==
    /\ dpc = "returned"
    /\ dpc' = "idle"
    /\ notified' = IF runResult.Success THEN "" ELSE failureType(runResult)
    /\ UNCHANGED <<steps, runResult, attempt, canceled, runTestsCfg,
                   retryFlakyTests, merged, pushed, failedStep>>
    /\ OnlyRun

\* The enclosing context is canceled.
Cancel ==
    /\ ~canceled
    /\ canceled' = TRUE
    /\ UNCHANGED <<dpc, steps, runResult, attempt, runTestsCfg, retryFlakyTests,
                   merged, pushed, notified, failedStep>>
    /\ OnlyRun

NextRun ==
    \/ ProcessMRFromQueue
    \/ \E out \in {"yes", "no", "error"} : BranchExists(out)
    \/ \E ok \in BOOLEAN : Checkout(ok)
    \/ \E ok \in BOOLEAN : Pull(ok)
    \/ \E out \in {"none", "some", "error"} : CheckConflicts(out)
    \/ \E passed \in BOOLEAN : TestAttempt(passed)
    \/ \E out \in {"ok", "unmerged", "error"} : MergeNoFF(out)
    \/ \E ok \in BOOLEAN : Rev(ok)
    \/ \E ok \in BOOLEAN : Push(ok)
    \/ HandleResult
    \/ Cancel

-----------------------------------------------------------------------------
(* Keepalive                                                               *)
-----------------------------------------------------------------------------

\* Latest wall-clock minute of the model.
MaxKeepaliveMinutes == 7

\* The bounds of IsFresh and IsStale, in minutes.
FreshBelow == 2
StaleBelow == 5

\* A nil *State: no keepalive file, or one that cannot be read or parsed.
NilState == [nil |-> TRUE, Timestamp |-> 0]

\* time.Since(s.Timestamp) with the clock reading now; a year for a nil state.
Age(s, now) == IF s.nil THEN 24 * 60 * 365 ELSE now - s.Timestamp

IsFresh(s, now) == ~s.nil /\ Age(s, now) < FreshBelow

\* Mutant of IsStale: an age of exactly two minutes is not stale.
KeepaliveIsStaleAbove(s, now) ==
    IF s.nil THEN FALSE
    ELSE Age(s, now) > FreshBelow /\ Age(s, now) < StaleBelow

\* State.IsStale (IsStale is the identity lock's).
KeepaliveIsStale(s, now) ==
    IF s.nil THEN FALSE
    ELSE Age(s, now) >= FreshBelow /\ Age(s, now) < StaleBelow

IsVeryStale(s, now) == s.nil \/ Age(s, now) >= StaleBelow

\* TouchInWorkspace: the file holds the current time; errors are ignored and
\* leave the file as it was.
TouchInWorkspace(ok) ==
    /\ keepalive' = IF ok THEN [nil |-> FALSE, Timestamp |-> wall]
                    ELSE keepalive
    /\ UNCHANGED <<wall, verdict>>
    /\ OnlyKeepalive

\* The file is removed or damaged: Read returns nil from now on.
LoseKeepalive ==
    /\ ~keepalive.nil
    /\ keepalive' = NilState
    /\ UNCHANGED <<wall, verdict>>
    /\ OnlyKeepalive

\* A minute passes.
Tick ==
    /\ wall < MaxKeepaliveMinutes
    /\ wall' = wall + 1
    /\ UNCHANGED <<keepalive, verdict>>
    /\ OnlyKeepalive

\* A reader asks the three questions of the State it has read; each call
\* reads the clock itself, and d1 and d2 minutes pass between the calls.
AskAge(d1, d2) ==
    /\ wall + d1 + d2 <= MaxKeepaliveMinutes
    /\ verdict' = [asked |-> TRUE,
                   fresh |-> IsFresh(keepalive, wall),
                   stale |-> KeepaliveIsStale(keepalive, wall + d1),
                   veryStale |-> IsVeryStale(keepalive, wall + d1 + d2),
                   instants |-> {wall, wall + d1, wall + d1 + d2}]
    /\ wall' = wall + d1 + d2
    /\ UNCHANGED keepalive
    /\ OnlyKeepalive

NextKeepalive ==
    \/ \E ok \in BOOLEAN : TouchInWorkspace(ok)
    \/ LoseKeepalive
    \/ Tick
    \/ \E d1, d2 \in 0..1 : AskAge(d1, d2)

InitKeepalive ==
    /\ keepalive = NilState
    /\ wall = 0
    /\ verdict = [asked |-> FALSE, fresh |-> FALSE, stale |-> FALSE,
                  veryStale |-> FALSE, instants |-> {}]

-----------------------------------------------------------------------------
(* Wisp store                                                              *)
-----------------------------------------------------------------------------

Agents == {"nux", "slit"}

HookPrefix == "hook-"
HookSuffix == ".json"
TypeSlungWork == "slung-work"

\* A file name is the sequence of the pieces it is concatenated from.
HookFilename(agent) == <<HookPrefix, agent, HookSuffix>>
HookPath(agent) == HookFilename(agent)

\* The SlungWork values handed to WriteSlungWork: two built as slung work, and
\* one whose Type field says something else.
SlungWorks ==
    {[Type |-> TypeSlungWork, BeadID |-> "gt-1"],
     [Type |-> TypeSlungWork, BeadID |-> "gt-2"],
     [Type |-> "patrol-cycle", BeadID |-> "gt-1"]}

NoWork == [Type |-> "", BeadID |-> ""]

\* json.MarshalIndent: the object's members, in field order.
marshal(sw) == <<<<"type", sw.Type>>, <<"bead_id", sw.BeadID>>>>

member(data, key) ==
    IF \E i \in 1..Len(data) : data[i][1] = key
    THEN data[CHOOSE i \in 1..Len(data) : data[i][1] = key][2]
    ELSE ""

\* Mutant of unmarshal: the bead id is not read back.
unmarshalWithoutBead(data) == [Type |-> member(data, "type"), BeadID |-> ""]

\* json.Unmarshal into a SlungWork: each field from its member.
unmarshal(data) ==
    [Type |-> member(data, "type"), BeadID |-> member(data, "bead_id")]

\* A file that os.WriteFile has opened and not yet filled.
PartialFile == [kind |-> "partial", data |-> <<>>]
JSONFile(data) == [kind |-> "json", data |-> data]

\* Mutant of tmpPath: writeJSON writes the hook file in place.
tmpPathInPlace(path) == path

\* tmp := path + ".tmp"
tmpPath(path) == path \o <<".tmp">>

\* ReadHook: ErrNoHook for a missing file, ErrInvalidWisp for data that does
\* not parse or whose Type is not slung-work.
ReadHook(files, agent) ==
    IF HookPath(agent) \notin DOMAIN files
    THEN [err |-> "ErrNoHook", sw |-> NoWork]
    ELSE IF files[HookPath(agent)].kind # "json"
    THEN [err |-> "ErrInvalidWisp", sw |-> NoWork]
    ELSE IF unmarshal(files[HookPath(agent)].data).Type # TypeSlungWork
    THEN [err |-> "ErrInvalidWisp", sw |-> NoWork]
    ELSE [err |-> "nil", sw |-> unmarshal(files[HookPath(agent)].data)]

\* os.Remove(path): the directory without that file.
removeFile(files, path) == [f \in DOMAIN files \ {path} |-> files[f]]

\* os.WriteFile / os.Rename target: the directory with that file set.
putFile(files, path, file) ==
    [f \in DOMAIN files \cup {path} |-> IF f = path THEN file ELSE files[f]]

HasHook(files, agent) == HookPath(agent) \in DOMAIN files

\* ListHooks: the middle of every name that is longer than prefix and suffix,
\* starts with the prefix and ends with the suffix.
ListHooks(files) ==
    {name[2] : name \in {n \in DOMAIN files :
        Len(n) > 2 /\ n[1] = HookPrefix /\ n[Len(n)] = HookSuffix}}

WispDid(name, agent, err, sw, agents) ==
    wres' = [name |-> name, agent |-> agent, err |-> err, sw |-> sw,
             agents |-> agents]

WriterIdle == [at |-> "idle", agent |-> "", sw |-> NoWork]

\* WriteSlungWork, up to the open of os.WriteFile(tmp, ...): EnsureDir, the
\* marshalling, and the temp file created empty.
WriteSlungWork(agent, sw) ==
    /\ wpc.at = "idle"
    /\ wpc' = [at |-> "data", agent |-> agent, sw |-> sw]
    /\ wispFiles' = putFile(wispFiles, tmpPath(HookPath(agent)), PartialFile)
    /\ UNCHANGED <<slung, wres>>
    /\ OnlyWisp

\* writeJSON: os.WriteFile(tmp, data) completes, or fails and returns
\* "write temp".
writeTemp(ok) ==
    /\ wpc.at = "data"
    /\ IF ok
       THEN /\ wispFiles' = putFile(wispFiles, tmpPath(HookPath(wpc.agent)),
                                    JSONFile(marshal(wpc.sw)))
            /\ wpc' = [wpc EXCEPT !.at = "rename"]
            /\ UNCHANGED wres
       ELSE /\ wpc' = WriterIdle
            /\ WispDid("WriteSlungWork", wpc.agent, "write temp", NoWork, {})
            /\ UNCHANGED wispFiles
    /\ UNCHANGED slung
    /\ OnlyWisp

\* writeJSON: os.Rename(tmp, path); on failure the temp file is removed.
renameTemp(ok) ==
    /\ wpc.at = "rename"
    /\ LET path == HookPath(wpc.agent)
           tmp == tmpPath(path)
       IN  IF ok
           THEN /\ wispFiles' = putFile(removeFile(wispFiles, tmp), path,
                                        wispFiles[tmp])
                /\ slung' = [slung EXCEPT ![wpc.agent] = wpc.sw]
                /\ WispDid("WriteSlungWork", wpc.agent, "nil", NoWork, {})
           ELSE /\ wispFiles' = removeFile(wispFiles, tmp)
                /\ WispDid("WriteSlungWork", wpc.agent, "rename", NoWork, {})
                /\ UNCHANGED slung
    /\ wpc' = WriterIdle
    /\ OnlyWisp

DoReadHook(agent) ==
    /\ WispDid("ReadHook", agent, ReadHook(wispFiles, agent).err,
               ReadHook(wispFiles, agent).sw, {})
    /\ UNCHANGED <<wispFiles, wpc, slung>>
    /\ OnlyWisp

DoHasHook(agent) ==
    /\ WispDid("HasHook", agent,
               IF HasHook(wispFiles, agent) THEN "true" ELSE "false", NoWork, {})
    /\ UNCHANGED <<wispFiles, wpc, slung>>
    /\ OnlyWisp

DoListHooks ==
    /\ WispDid("ListHooks", "", "nil", NoWork, ListHooks(wispFiles))
    /\ UNCHANGED <<wispFiles, wpc, slung>>
    /\ OnlyWisp

\* BurnHook: os.Remove(path); a missing file is not an error.
BurnHook(agent) ==
    /\ wispFiles' = removeFile(wispFiles, HookPath(agent))
    /\ slung' = [slung EXCEPT ![agent] = NoWork]
    /\ WispDid("BurnHook", agent, "nil", NoWork, {})
    /\ UNCHANGED wpc
    /\ OnlyWisp

NextWisp ==
    \/ \E a \in Agents, sw \in SlungWorks : WriteSlungWork(a, sw)
    \/ \E ok \in BOOLEAN : writeTemp(ok)
    \/ \E ok \in BOOLEAN : renameTemp(ok)
    \/ \E a \in Agents : DoReadHook(a)
    \/ \E a \in Agents : DoHasHook(a)
    \/ DoListHooks
    \/ \E a \in Agents : BurnHook(a)

\* An empty wisp directory.
InitWisp ==
    /\ wispFiles = <<>>
    /\ wpc = WriterIdle
    /\ slung = [a \in Agents |-> NoWork]
    /\ wres = [name |-> "", agent |-> "", err |-> "nil", sw |-> NoWork,
               agents |-> {}]

\* The lock file is absent, or left behind by a process that has died.
StartLock ==
    /\ InitLock({NoFile, LockInfo(DeadPid, 0, "gt-a")})
    /\ InitPool({<<>>}) /\ InitManager /\ InitState /\ InitMerge({TRUE}) /\ InitWisp /\ InitCallback(<<>>)
    /\ InitInbox(<<>>)
    /\ InitPrime({"mayor"}, {FALSE})
    /\ InitRun({FALSE}, {1})
    /\ InitWorktrees
    /\ InitKeepalive

SpecLock == StartLock /\ [][NextLock]_vars

\* A call that has started runs on: the steps of Acquire after its Read.
AcquireRuns(p) ==
    AcquireProbe(p) \/ AcquireRemoveStale(p) \/ writeOpen(p) \/ writeData(p)

\* SpecLock with every live process finishing the Acquire it has started.
SpecLockFair == SpecLock /\ \A p \in Procs : WF_vars(AcquireRuns(p))

\* A rig with default settings and no worker yet.
StartManager ==
    InitLock({NoFile}) /\ InitPool({<<>>}) /\ InitManager /\ InitState /\ InitMerge({TRUE}) /\ InitWisp /\ InitCallback(<<>>)
    /\ InitInbox(<<>>)
    /\ InitPrime({"mayor"}, {FALSE})
    /\ InitRun({FALSE}, {1})
    /\ InitWorktrees
    /\ InitKeepalive

\* A rig whose merge queue is empty.
StartMerge ==
    InitLock({NoFile}) /\ InitPool({<<>>}) /\ InitManager /\ InitState /\ InitMerge({TRUE}) /\ InitWisp /\ InitCallback(<<>>)
    /\ InitInbox(<<>>)
    /\ InitPrime({"mayor"}, {FALSE})
    /\ InitRun({FALSE}, {1})
    /\ InitWorktrees
    /\ InitKeepalive

SpecMerge == StartMerge /\ [][NextMerge]_vars

\* The engine's way from a submitted branch to a handled merge.
NextBranch ==
    \/ Enqueue
    \/ ListReadyMRs({})
    \/ \E failed \in FailureSets({"log", "release", "show", "update", "close",
                                  "closeSource", "deleteBranch", "remove"}) :
          handleSuccessFromQueue(failed)

\* An empty merge queue, delete_merged_branches set or not.
StartBranch ==
    /\ InitLock({NoFile}) /\ InitPool({<<>>}) /\ InitManager /\ InitState
    /\ InitMerge(BOOLEAN) /\ InitWisp /\ InitCallback(<<>>) /\ InitInbox(<<>>)
    /\ InitPrime({"mayor"}, {FALSE})
    /\ InitRun({FALSE}, {1})
    /\ InitWorktrees
    /\ InitKeepalive

SpecBranch == StartBranch /\ [][NextBranch]_vars

\* The engine between two runs, with or without tests configured.
StartRun ==
    /\ InitLock({NoFile}) /\ InitPool({<<>>}) /\ InitManager /\ InitState
    /\ InitMerge({TRUE}) /\ InitWisp /\ InitCallback(<<>>) /\ InitInbox(<<>>)
    /\ InitPrime({"mayor"}, {FALSE})
    /\ InitRun(BOOLEAN, 0..MaxRetries)
    /\ InitWorktrees
    /\ InitKeepalive

SpecRun == StartRun /\ [][NextRun]_vars

\* An empty wisp directory.
StartWisp ==
    InitLock({NoFile}) /\ InitPool({<<>>}) /\ InitManager /\ InitState /\ InitMerge({TRUE}) /\ InitWisp /\ InitCallback(<<>>)
    /\ InitInbox(<<>>)
    /\ InitPrime({"mayor"}, {FALSE})
    /\ InitRun({FALSE}, {1})
    /\ InitWorktrees
    /\ InitKeepalive

SpecWisp == StartWisp /\ [][NextWisp]_vars

\* Any inbox of up to MaxInbox messages, nothing processed yet.
StartInbox ==
    /\ InitLock({NoFile}) /\ InitPool({<<>>}) /\ InitManager /\ InitState
    /\ InitMerge({TRUE}) /\ InitWisp /\ InitCallback(<<>>)
    /\ \E box \in Inboxes : InitInbox(box)
    /\ InitPrime({"mayor"}, {FALSE})
    /\ InitRun({FALSE}, {1})
    /\ InitWorktrees
    /\ InitKeepalive

SpecInbox == StartInbox /\ [][NextInbox]_vars

\* A directory of any role, the lock file absent or left behind by a process
\* that has died, the mayor's clone with or without a .beads directory.
StartPrime ==
    /\ InitLock({NoFile, LockInfo(DeadPid, 0, "gt-a")})
    /\ InitPool({<<>>}) /\ InitManager /\ InitState /\ InitMerge({TRUE}) /\ InitWisp
    /\ InitCallback(<<>>) /\ InitInbox(<<>>)
    /\ InitPrime(Roles, BOOLEAN)
    /\ InitRun({FALSE}, {1})
    /\ InitWorktrees
    /\ InitKeepalive

SpecPrime == StartPrime /\ [][NextPrime]_vars

\* A message with any subject waits in the inbox.
StartCallback ==
    /\ InitLock({NoFile}) /\ InitPool({<<>>}) /\ InitManager /\ InitState
    /\ InitMerge({TRUE}) /\ InitWisp
    /\ \E s \in Subjects : InitCallback(s)
    /\ InitInbox(<<>>)
    /\ InitPrime({"mayor"}, {FALSE})
    /\ InitRun({FALSE}, {1})
    /\ InitWorktrees
    /\ InitKeepalive

SpecCallback == StartCallback /\ [][NextCallback]_vars

SpecManager == StartManager /\ [][NextManager]_vars

SpecGate == StartManager /\ [][NextGate]_vars

SpecKeepalive == StartManager /\ [][NextKeepalive]_vars

SpecWorktrees == StartManager /\ [][NextWorktrees]_vars

SpecState == StartManager /\ [][NextState]_vars

\* A pool of the default theme, or of the rig's custom_names.
StartPool ==
    /\ InitLock({NoFile})
    /\ InitPool({<<>>, ConfiguredNames}) /\ InitManager /\ InitState /\ InitMerge({TRUE}) /\ InitWisp /\ InitCallback(<<>>)
    /\ InitInbox(<<>>)
    /\ InitPrime({"mayor"}, {FALSE})
    /\ InitRun({FALSE}, {1})
    /\ InitWorktrees
    /\ InitKeepalive

SpecPool == StartPool /\ [][NextPool]_vars

SpecNames == StartPool /\ [][NextNames]_vars

SpecReload == StartPool /\ [][NextReload]_vars

-----------------------------------------------------------------------------
(* Claims about the identity lock                                          *)
-----------------------------------------------------------------------------

\* C1: two live processes never have both passed Acquire for the same worker
\* directory without a Release in between (of two racing Acquire calls exactly
\* one returns nil, the other ErrLocked).
C1_AtMostOneHolder ==
    \A p, q \in Procs :
        (p # q /\ p \in alive /\ q \in alive) => ~(held[p] /\ held[q])

C12_LockedByLiveProcess ==
    [][\A p \in Procs :
          /\ (lpc[p] = "idle" /\ lpc'[p] \in {"probe", "write"})
                => (lockFile' = lockFile /\ rd'[p] = Read(lockFile).info)
          /\ (/\ lpc[p] = "probe" /\ lpc'[p] # "probe" /\ p \in alive'
              /\ rd[p].pid \in alive /\ rd[p].pid # p)
                => (/\ lres'[p] = "ErrLocked"
                    /\ lerr'[p] = rd[p]
                    /\ lpc'[p] = "idle"
                    /\ lockFile' = lockFile)]_vars

\* C12 witness: a process was turned away by the lock of a live process, and
\* the file still holds what the error reports.
C12_Witness ==
    \E p \in Procs :
        /\ lres[p] = "ErrLocked"
        /\ lerr[p].pid \in alive \ {p}
        /\ lerr[p].session \in Sessions
        /\ lockFile = lerr[p]

-----------------------------------------------------------------------------
(* Claims about the name pool                                              *)
-----------------------------------------------------------------------------

\* The first MaxSize themed names are all in use.
Exhausted(p) ==
    \A i \in 1..Len(getNames(p)) :
        i <= p.MaxSize => getNames(p)[i] \in p.InUse

\* C8: Allocate returns the earliest-declared name among the first max_size
\* names of the current list that is not in in_use, and marks it in use; of two
\* free names it never returns the later one, whichever was released last.
C8_AllocateEarliestFree ==
    [][(op'.name = "Allocate" /\ ~Exhausted(pool)) =>
        LET names == getNames(pool) IN
        /\ \E k \in 1..Len(names) :
              /\ k <= pool.MaxSize
              /\ ret' = names[k]
              /\ names[k] \notin pool.InUse
              /\ \A i \in 1..(k - 1) : names[i] \in pool.InUse
        /\ \A i, j \in 1..Len(names) :
              (i < j /\ j <= pool.MaxSize /\ names[i] \notin pool.InUse
                     /\ names[j] \notin pool.InUse) => ret' # names[j]
        /\ pool'.InUse = pool.InUse \cup {ret'}
        /\ pool'.OverflowNext = pool.OverflowNext]_vars

\* C8 witness: after the pool had been exhausted and names were released,
\* Allocate returned the first name of the list while the second was free too.
C8_Witness ==
    /\ op.name = "Allocate"
    /\ ret = getNames(pool)[1]
    /\ getNames(pool)[2] \notin pool.InUse
    /\ pool.OverflowNext > pool.MaxSize + 1

\* C9: with the first max_size names in use, Allocate returns
\* <rig>-<overflow_next> and raises overflow_next by exactly one, leaving in_use
\* alone; the counter starts at max_size+1 (construction, Reset) and never
\* drops below it; Release of an overflow name changes neither overflow_next
\* nor in_use.
C9_OverflowSequence ==
    [][/\ (op'.name = "Allocate" /\ Exhausted(pool)) =>
            /\ ret' = formatOverflowName(pool, pool.OverflowNext)
            /\ pool'.OverflowNext = pool.OverflowNext + 1
            /\ pool'.InUse = pool.InUse
       /\ op'.name = "Reset" => pool'.OverflowNext = pool'.MaxSize + 1
       /\ pool'.OverflowNext >= pool'.MaxSize + 1
       /\ \A n \in OverflowNames :
            DoRelease(n) => /\ pool'.OverflowNext = pool.OverflowNext
                            /\ pool'.InUse = pool.InUse]_vars

\* C9 witness: the second overflow name in a row, <rig>-(max_size+2).
C9_Witness ==
    /\ op.name = "Allocate"
    /\ ret = formatOverflowName(pool, pool.MaxSize + 2)
    /\ pool.OverflowNext = pool.MaxSize + 3
    /\ sinceRewind = {formatOverflowName(pool, pool.MaxSize + 1), ret}

\* C10 as stated: across Allocate, Release, MarkInUse, Reconcile, SetTheme,
\* Reset, Save and Load no overflow name is returned by Allocate twice.
C10_OverflowNeverReturnedTwice ==
    [][(op'.name = "Allocate" /\ ret' \in OverflowNames) =>
            ret' \notin handed]_vars

\* C10 amended: overflow names are never in in_use, and no overflow name is
\* returned twice unless a Reset or a Load came between the two returns.
C10_OverflowUniqueBetweenRewinds ==
    [][/\ pool'.InUse \cap OverflowNames = {}
       /\ (op'.name = "Allocate" /\ ret' \in OverflowNames) =>
            ret' \notin sinceRewind]_vars

\* C10 witness: two overflow names handed out with no Reset or Load between.
C10_Witness ==
    /\ op.name = "Allocate"
    /\ ret \in OverflowNames
    /\ Cardinality(sinceRewind) = 2

\* C15: Save followed by Load into a fresh pool of the same rig reproduces
\* rig_name, theme, custom_names, in_use, overflow_next and max_size, whatever
\* theme, custom names and max_size the fresh pool was constructed with, and
\* Allocate on the loaded pool returns what it would on the saved one.
C15_SaveLoadRoundTrip ==
    [][op'.name = "Reload" =>
          /\ pool'.RigName = pool.RigName
          /\ pool'.Theme = pool.Theme
          /\ pool'.CustomNames = pool.CustomNames
          /\ pool'.InUse = pool.InUse
          /\ pool'.OverflowNext = pool.OverflowNext
          /\ pool'.MaxSize = pool.MaxSize
          /\ Allocate(pool').name = Allocate(pool).name]_vars

-----------------------------------------------------------------------------
(* Claims about the polecat manager                                        *)
-----------------------------------------------------------------------------

NothingRemoved == UNCHANGED <<polecats, pool, stateFile>>

\* C16: RemoveWithOptions with nuclear=false never removes a worktree that has
\* stashes or unpushed commits, and with force=false also never one that has
\* uncommitted changes; the refused call returns UncommittedWorkError and
\* leaves worktree and pool state as they were; with nuclear=true the worktree
\* is removed whatever it holds.
C16_RemoveGate ==
    [][(op'.name = "Remove" /\ exists(asked'.name)) =>
          /\ (~asked'.nuclear /\ (asked'.status.stashes \/ asked'.status.unpushed))
                => (op'.err = "UncommittedWorkError" /\ NothingRemoved)
          /\ (~asked'.nuclear /\ ~asked'.force /\ asked'.status.changes)
                => (op'.err = "UncommittedWorkError" /\ NothingRemoved)
          /\ asked'.nuclear =>
                (op'.err = "nil" /\ ~BagIn(asked'.name, polecats'))]_vars

AssignedTo(tr, name) == {i \in IssueIds : tr[i].Assignee = assigneeID(name)}

\* C18: Get of an existing worker returns, without error, Working when the
\* issues assigned to <rig>/<name> are open or in progress, Done when they are
\* closed, Idle when no issue is assigned, and Idle when the tracker cannot be
\* reached; Get of a worker that does not exist returns ErrPolecatNotFound.
C18_GetDerivesState ==
    [][\A n \in TrackedWorkers, m \in TrackerModes :
          (mres'.name = "Get" /\ Get(n, m)) =>
             IF ~exists(n) THEN mres'.err = "ErrPolecatNotFound"
             ELSE /\ mres'.err = "nil"
                  /\ mres'.state \in {"working", "done", "idle"}
                  /\ m = "unreachable" => mres'.state = "idle"
                  /\ m # "unreachable" =>
                       LET mine == AssignedTo(tracker, n)
                       IN  /\ mine = {} => mres'.state = "idle"
                           /\ (/\ mine # {}
                               /\ \A i \in mine :
                                     tracker[i].Status \in {"open", "in_progress"})
                                 => mres'.state = "working"
                           /\ (mine # {} /\ \A i \in mine :
                                     tracker[i].Status = "closed")
                                 => mres'.state = "done"]_vars

\* C18 witness: Get has returned Done for a worker whose issue was closed.
C18_Witness ==
    /\ mres.name = "Get" /\ mres.err = "nil" /\ mres.state = "done"
    /\ exists(mres.worker)
    /\ AssignedTo(tracker, mres.worker) # {}
    /\ \A i \in AssignedTo(tracker, mres.worker) : tracker[i].Status = "closed"

\* The state Get returns for a worker when the tracker answers.
Derived(tr, name) == loadFromBeads(tr, name, "ok")

LegalTransitions ==
    {<<"idle", "working">>, <<"working", "idle">>, <<"working", "done">>}

\* The state an operation is to bring the worker to.
Target(r) ==
    IF r.name \in {"AssignIssue", "Wake"} THEN "working"
    ELSE IF r.name = "SetState" THEN r.arg
    ELSE "idle"

\* C19: across AssignIssue, ClearIssue, SetState, Wake, Sleep, Finish and Reset
\* the derived state of a worker changes only along Idle->Working,
\* Working->Idle, Working->Done, or to Idle by Reset, and an operation that
\* returns success leaves the worker in the state it is to bring it to.
C19_LegalTransitions ==
    [][(/\ mres'.name \in {"AssignIssue", "ClearIssue", "SetState", "Wake",
                           "Sleep", "Finish", "Reset"}
        /\ exists(mres'.worker)
        /\ <<tracker, mres>>' # <<tracker, mres>>) =>
          /\ \A n \in TrackedWorkers :
                \/ Derived(tracker', n) = Derived(tracker, n)
                \/ <<Derived(tracker, n), Derived(tracker', n)>> \in LegalTransitions
                \/ /\ mres'.name = "Reset" /\ n = mres'.worker
                   /\ Derived(tracker', n) = "idle"
          /\ (mres'.err = "nil" /\ Target(mres') \in {"working", "done", "idle"})
                => Derived(tracker', mres'.worker) = Target(mres')]_vars

-----------------------------------------------------------------------------
(* Claims about the merge engine                                           *)
-----------------------------------------------------------------------------

\* The MRs of the queue that are blocked on an open conflict-resolution task.
BlockedOnOpenTask ==
    {m \in MRIds : /\ queue[m].inQueue
                   /\ queue[m].BlockedBy # 0
                   /\ tasks[queue[m].BlockedBy].Status = "open"}

\* C2: in every reachable state of the merge engine at most one MR is
\* blocked on an open conflict-repair task.
C2_AtMostOneOpenRepair == Cardinality(BlockedOnOpenTask) <= 1

\* C3: a handleFailureFromQueue step with a conflict result ends in exactly
\* one of: (a) the slot is held by this engine and the MR's blocked_by names a
\* task created by this step and open; (b) the slot was held by someone else,
\* no task was created and the MR is unchanged except for retry_count + 1.
C3_ConflictDichotomy ==
    [][(mop'.name = "handleFailureFromQueue" /\ mop'.result = "conflict") =>
          LET m == mop'.mr
              t == queue'[m].BlockedBy
              blockedOnNewTask ==
                  /\ slotHolder' = Refinery
                  /\ t # 0
                  /\ tasks[t].Status = "none"
                  /\ tasks'[t].Status = "open"
              deferredWithRetry ==
                  /\ slotHolder \notin {"", Refinery}
                  /\ tasks' = tasks
                  /\ queue' = [queue EXCEPT ![m].RetryCount = @ + 1]
          IN  blockedOnNewTask # deferredWithRetry]_vars

\* What C4 promises of the MR a handleSuccessFromQueue step has handled.
MergedAndClosed(m) ==
    /\ ~queue'[m].inQueue
    /\ issues'[m].Status = "closed"
    /\ issues'[m].CloseReason = "merged"
    /\ issues'[m].MergeCommit = MergeCommitOf(m)
    /\ queue[m].SourceIssue => sources'[m] = "closed"

C6_SlotHeldUntilResolved ==
    [][(slotHolder = Refinery /\ slotHolder' # Refinery) =>
          \/ mop'.name = "OperatorClear"
          \/ mop'.name = "handleSuccessFromQueue" /\ mop'.mr = slotFor]_vars

-----------------------------------------------------------------------------
(* Wisp store: claims                                                      *)
-----------------------------------------------------------------------------

\* The step is a call of the named wisp operation returning.
WispReturns(name) == wres' # wres /\ wres'.name = name

-----------------------------------------------------------------------------
(* Callback classification: claims                                         *)
-----------------------------------------------------------------------------

\* The rows whose pattern matches the subject.
MatchingRows(s) == {i \in 1..Len(Patterns) : MatchString(Patterns[i], s)}

Reversed(table) == [i \in 1..Len(table) |-> table[Len(table) + 1 - i]]

\* C20: what classifyCallback returns depends on the subject alone; it is the
\* type of the row whose anchored pattern matches the subject and unknown when
\* no row matches; no subject matches two rows, so trying the patterns in the
\* opposite order returns the same.
C20_ClassifyByPattern ==
    /\ Cardinality(MatchingRows(subject)) <= 1
    /\ firstMatch(Reversed(Patterns), 1, subject) = firstMatch(Patterns, 1, subject)
    /\ kind # "" =>
          /\ kind = classifyCallback(subject)
          /\ \A i \in MatchingRows(subject) : kind = Patterns[i].type
          /\ MatchingRows(subject) = {} <=> kind = CallbackUnknown

\* C20 witness: a completed merge request, told apart from a rejected one.
C20_Witness ==
    /\ subject = <<"Merge Request Completed:", " ", "x">>
    /\ kind = "merge_completed"

\* A turn of the loop of runCallbacksProcess is being taken.
Processing == pending # <<>> /\ pending' = Tail(pending)

\* C21: in a dry run processing a message forwards no mail, closes no issue,
\* writes no town-log entry and deletes no message, and the message gets the
\* callback type it gets without dry run; a message leaves the inbox only when
\* it was handled and the run is not a dry run.
C21_DryRunNoEffect ==
    [][Processing =>
        /\ dry => UNCHANGED <<inbox, sent, townLog, beadsClosed>>
        /\ \A f \in CallbackFailures :
              cres'.CallbackType
                 = processCallback(Head(pending), ~dry, f).CallbackType
        /\ inbox' # inbox => cres'.Handled /\ ~dry]_vars

\* A HELP message handled in a dry run: still in the inbox, nothing sent.
C21_Witness ==
    /\ dry
    /\ cres.CallbackType = "help"
    /\ cres.Handled
    /\ \E i \in 1..Len(inbox) : inbox[i].ID = cres.MessageID
    /\ sent = {}
    /\ townLog = {}

\* The forward of message msg: to overseer, priority high, carrying the sender.
ForwardOf(msg) ==
    [To |-> "overseer", Priority |-> "high", Sender |-> msg.From, Of |-> msg.ID]

\* C22: a HELP message leaves the inbox only in a step that has sent its
\* forward to overseer with priority high and the original sender; when the
\* forwarding fails the message stays in the inbox and the result of that
\* message carries the error.
C22_HelpForwardedBeforeDelete ==
    [][Processing /\ classifyCallback(Head(pending).Subject) = "help" =>
        /\ inbox' # inbox => ForwardOf(Head(pending)) \in sent'
        /\ ForwardOf(Head(pending)) \notin sent' /\ ~dry =>
              /\ inbox' = inbox
              /\ cres'.MessageID = Head(pending).ID
              /\ cres'.Error = "forwarding to overseer"
              /\ ~cres'.Handled]_vars

\* A HELP message forwarded and then deleted.
C22_Witness ==
    /\ cres.CallbackType = "help"
    /\ cres.Handled
    /\ \E m \in sent : m.Of = cres.MessageID /\ m.Priority = "high"
    /\ \A i \in 1..Len(inbox) : inbox[i].ID # cres.MessageID

\* C23: a message whose subject matches no pattern is reported unknown and
\* not handled, stays in the inbox, and nothing is forwarded, logged or closed
\* for it, dry run or not; the loop goes on to the message after it.
C23_UnknownLeftAlone ==
    [][Processing /\ classifyCallback(Head(pending).Subject) = CallbackUnknown =>
        /\ cres'.CallbackType = CallbackUnknown
        /\ ~cres'.Handled
        /\ UNCHANGED <<inbox, sent, townLog, beadsClosed>>
        /\ pending' = Tail(pending)]_vars

\* An unknown message was passed over and the message after it handled and
\* deleted.
C23_Witness ==
    /\ pending = <<>>
    /\ inbox = <<Msg(12, <<"x", " ", "HELP:">>, "", "")>>
    /\ cres.MessageID = 1
    /\ cres.Handled
    /\ townLog = {1}

-----------------------------------------------------------------------------
(* gt prime: claims                                                          *)
-----------------------------------------------------------------------------

\* C24: in a polecat or crew directory runPrime restores the redirect and
\* prints the role context only after its Acquire has returned nil; a runPrime
\* whose Acquire read the lock of another live process leaves the lock file as
\* it is and returns the error without writing the redirect and without
\* printing; in a directory of any other role the lock file is never touched
\* and no Acquire is made.
C24_PrimeLocksFirst ==
    /\ [](\A p \in Procs :
            /\ (role \in WorkerRoles /\ ppc[p] \in {"redirect", "context"})
                  => lres[p] = "ok"
            /\ (role \in WorkerRoles /\ emitted[p]) => lres[p] = "ok"
            /\ pres[p] = "cannot claim identity" => ~emitted[p]
            /\ role \notin WorkerRoles => (lres[p] = "none" /\ lpc[p] # "write"))
    /\ [][/\ \A p \in Procs :
               /\ (/\ ppc[p] = "acquire" /\ lpc[p] = "probe" /\ lpc'[p] # "probe"
                   /\ p \in alive' /\ rd[p].pid \in alive /\ rd[p].pid # p)
                     => (lres'[p] = "ErrLocked" /\ lockFile' = lockFile)
               /\ (/\ ppc[p] = "acquire" /\ ppc'[p] # "acquire"
                   /\ lres[p] = "ErrLocked")
                     => (/\ ppc'[p] = "idle"
                         /\ pres'[p] = "cannot claim identity"
                         /\ ~emitted'[p]
                         /\ UNCHANGED <<lockFile, redirect>>)
          /\ role \notin WorkerRoles => UNCHANGED lockFile]_vars

\* A runPrime in a worker directory was refused by the lock of a live process
\* that has printed its context; the lock file still names that process.
C24_Witness ==
    \E p \in Procs :
        /\ role \in WorkerRoles
        /\ pres[p] = "cannot claim identity"
        /\ lerr[p].pid \in alive \ {p}
        /\ lockFile = lerr[p]
        /\ emitted[lerr[p].pid]
        /\ ~emitted[p]

\* C25: the redirect file of a worker directory, whoever wrote it, holds
\* ../../.beads and a newline.
C25_RedirectContent ==
    (role \in WorkerRoles /\ redirect # NoRedirect)
        => redirect = FileOf("../../.beads", "\n")

-----------------------------------------------------------------------------
(* Merge engine: branches after a merge                                      *)
-----------------------------------------------------------------------------

\* C26: after handleSuccessFromQueue, none of its calls failing, the source
\* branch of the MR is gone locally and on origin when delete_merged_branches
\* is true, and both refs are there when it is false.
C26_MergedBranchDeleted ==
    (mop.name = "handleSuccessFromQueue" /\ mop.failed = {})
        => /\ refs[mop.mr].local = ~deleteMergedBranches
           /\ refs[mop.mr].origin = ~deleteMergedBranches

-----------------------------------------------------------------------------
(* Name pool: SetTheme and Reconcile                                         *)
-----------------------------------------------------------------------------

\* A SetTheme call that names the theme the pool has.
SetSameTheme ==
    /\ op'.name = "SetTheme" /\ op'.err = "nil"
    /\ pool'.Theme = pool.Theme

\* C27 as stated: SetTheme with the pool's current theme changes nothing of
\* the pool.
C27_SetSameThemeNoOp == [][SetSameTheme => pool' = pool]_vars

\* C27, amended: SetTheme with the pool's current theme leaves theme and
\* overflow_next as they are and changes nothing when the pool has no custom
\* names; a custom name list is discarded, and of the names in use only those
\* of the built-in theme stay.
C27_SetSameThemeDropsCustomNames ==
    [][SetSameTheme =>
        /\ pool'.OverflowNext = pool.OverflowNext
        /\ pool'.MaxSize = pool.MaxSize
        /\ pool'.CustomNames = <<>>
        /\ pool'.InUse = pool.InUse \cap SeqRange(BuiltinThemes[pool.Theme])
        /\ pool.CustomNames = <<>> => pool' = pool]_vars

\* SetTheme has returned on a pool of theme mad-max with furiosa, a name of
\* that theme only, still in use.
C27_Witness ==
    /\ op.name = "SetTheme" /\ op.err = "nil"
    /\ pool.Theme = "mad-max"
    /\ "furiosa" \in pool.InUse

\* The names of the list that are in the pool's current name list.
ThemedIn(p, list) ==
    {n \in list : \E i \in 1..Len(getNames(p)) : getNames(p)[i] = n}

\* The positions of the current name list whose name is not in the list.
NotListed(p, list, upto) ==
    {i \in 1..upto : i <= Len(getNames(p)) /\ getNames(p)[i] \notin list}

Earliest(S) == CHOOSE i \in S : \A j \in S : i <= j

\* C28 as stated: after Reconcile(list) in_use is the themed names of the
\* list, overflow_next is unchanged, and Allocate returns the earliest-declared
\* themed name that is not in the list.
C28_ReconcileThenEarliest ==
    \A list \in ReconcileLists :
        LET r == Reconcile(pool, list)
            free == NotListed(pool, list, Len(getNames(pool)))
        IN  /\ r = [pool EXCEPT !.InUse = ThemedIn(pool, list)]
            /\ free # {} => Allocate(r).name = getNames(pool)[Earliest(free)]

\* C28, amended: after Reconcile(list) in_use is the themed names of the list
\* and nothing else of the pool has changed; Allocate then returns the
\* earliest-declared name among the first max_size that is not in the list,
\* and the next overflow name when all of those are in the list.
C28_ReconcileThenEarliestOfMaxSize ==
    \A list \in ReconcileLists :
        LET r == Reconcile(pool, list)
            free == NotListed(pool, list, pool.MaxSize)
        IN  /\ r = [pool EXCEPT !.InUse = ThemedIn(pool, list)]
            /\ Allocate(r).name =
                  IF free # {} THEN getNames(pool)[Earliest(free)]
                  ELSE formatOverflowName(pool, pool.OverflowNext)

\* Reconcile has returned with rust the only name in use, the stray directory
\* ignored, and the overflow counter where Allocate had left it.
C28_Witness ==
    /\ op.name = "Reconcile"
    /\ pool.Theme = "wasteland"
    /\ pool.InUse = {"rust"}
    /\ pool.OverflowNext > pool.MaxSize + 1

-----------------------------------------------------------------------------
(* doMerge: claims                                                           *)
-----------------------------------------------------------------------------

\* The steps of doMerge in the order of its code; the tests only when
\* configured.
StepOrder ==
    IF runTestsCfg
    THEN <<"BranchExists", "Checkout", "Pull", "CheckConflicts", "runTests",
           "MergeNoFF", "Rev", "Push">>
    ELSE <<"BranchExists", "Checkout", "Pull", "CheckConflicts",
           "MergeNoFF", "Rev", "Push">>

\* The names of the steps taken are the first names of the order.
InOrder ==
    /\ Len(steps) <= Len(StepOrder)
    /\ \A i \in 1..Len(steps) : steps[i].step = StepOrder[i]

\* The run has ended with a failure at the step taken last.
EndedAt(name) ==
    /\ dpc \in {"returned", "idle"}
    /\ ~runResult.Success
    /\ steps[Len(steps)].step = name

\* What C29 says of a missing source branch and of a conflict set: the step
\* that found it is the last of the run.
EarlyExits ==
    \A i \in 1..Len(steps) :
        /\ steps[i] = Step("BranchExists", "no")
              => (/\ Len(steps) = 1 /\ EndedAt("BranchExists")
                  /\ ~runResult.Conflict)
        /\ steps[i] = Step("CheckConflicts", "some")
              => (/\ i = Len(steps) /\ EndedAt("CheckConflicts")
                  /\ runResult.Conflict
                  /\ ~merged /\ ~pushed)

C30_CanceledIsNotTestsFailed ==
    runResult.Error = "test run canceled"
        => (~runResult.TestsFailed /\ notified # "tests")

-----------------------------------------------------------------------------
(* Claims C31..C40                                                          *)
-----------------------------------------------------------------------------

C33_RecreateGate ==
    /\ [][(op'.name = "Recreate" /\ exists(rcall'.name)) =>
             LET st == work[rcall'.name]
                 refused == op'.err = "UncommittedWorkError"
             IN  /\ (rcall'.force /\ st.changes) => refused
                 /\ (rcall'.force /\ ~st.changes) => ~refused
                 /\ (~rcall'.force /\ ~Clean(st)) => refused
                 /\ refused => /\ polecats' = polecats
                               /\ work' = work
                               /\ branches' = branches]_vars
    /\ [](\A n \in WorktreeNames :
             (exists(n) /\ (work[n].stashes \/ work[n].unpushed)) =>
                 RemoveRefused(TRUE, FALSE, work[n]))

\* C34: a Release called by a process other than the live holder recorded in
\* the lock file leaves the lock file in place.
C34_ReleaseOnlyByHolder ==
    [][\A p \in Procs :
          (/\ Release(p)
           /\ lockFile.kind = "info"
           /\ lockFile.pid # p
           /\ lockFile.pid \in alive) => lockFile' = lockFile]_vars

\* C35: of the answers IsFresh, IsStale and IsVeryStale give for one State
\* at one instant, exactly one is true.
C35_ExactlyOneAgeClass ==
    (verdict.asked /\ Cardinality(verdict.instants) = 1) =>
        Cardinality({c \in {"fresh", "stale", "veryStale"} : verdict[c]}) = 1
\* C35 witness: a State written two minutes ago, asked at one instant, is
\* stale and nothing else.
C35_Witness ==
    /\ verdict.asked
    /\ verdict.instants = {wall}
    /\ ~keepalive.nil
    /\ wall - keepalive.Timestamp = FreshBelow
    /\ verdict.stale /\ ~verdict.fresh /\ ~verdict.veryStale

\* C36: of two successful AllocateName calls of one manager with no other
\* manager call in between, the second does not return the name the first
\* returned.
C36_AllocateNameTwice ==
    [][(/\ op.name = "AllocateName" /\ op.err = "nil"
        /\ op'.name = "AllocateName" /\ op'.err = "nil") => ret' # ret]_vars

\* C37: doMerge returns Conflict=true only when conflicting files were
\* detected, by the dry-run check or as unmerged paths after a failed merge;
\* so the witness is told of a conflict, and the conflict path is taken, only
\* then.
C37_ConflictOnlyWhenDetected ==
    (steps # <<>> /\ runResult.Conflict) =>
        steps[Len(steps)] \in {Step("CheckConflicts", "some"),
                               Step("MergeNoFF", "unmerged")}

\* C38: when doMerge has returned a failure, the local target branch has no
\* merge commit of this run that was not pushed to origin.
C38_NoUnpublishedMergeOnFailure ==
    (dpc = "returned" /\ ~runResult.Success) => (merged => pushed)

\* C39: at any time at most one issue is assigned to a worker, and after a
\* Reset or ClearIssue of an existing worker that succeeded with the tracker
\* reachable no issue is assigned to it and its derived state is Idle.
C39_OneIssuePerWorker ==
    /\ [](\A n \in TrackedWorkers : Cardinality(AssignedTo(tracker, n)) <= 1)
    /\ [][\A n \in TrackedWorkers :
             (/\ exists(n)
              /\ mres'.err = "nil"
              /\ \/ mres'.name = "Reset" /\ DoResetWorker(n, "ok")
                 \/ mres'.name = "ClearIssue" /\ DoClearIssue(n, "ok"))
                => /\ AssignedTo(tracker', n) = {}
                   /\ Derived(tracker', n) = "idle"]_vars

\* C40: every name in in_use belongs to the pool's current name list, so
\* Release of it removes it and ActiveCount goes down by one.
C40_InUseIsReleasable ==
    \A n \in pool.InUse :
       /\ isThemedName(pool, n)
       /\ PoolRelease(pool, n).InUse = pool.InUse \ {n}
       /\ Cardinality(PoolRelease(pool, n).InUse) = Cardinality(pool.InUse) - 1

====
